---- MODULE Spec2Model ----
(***************************************************************************)
(* A model of the entity-component-system core of aircraft-web: Entity and *)
(* Component (core/ecs/Entity.ts, Component), System and World             *)
(* (core/ecs/System.ts) and CollisionSystem (systems/CollisionSystem.ts).  *)
(*                                                                         *)
(* Objects are named by small values: an entity object by a number that    *)
(* stands for its uuid (number order is the order of the id strings), a    *)
(* system, a component and a listener by a name.  World.update is a        *)
(* sequence of steps (pc, idx, lidx hold the position of its loops) so     *)
(* that the calls a system makes from inside its update are steps of the   *)
(* same run.  The operations are defined as the code has them; which       *)
(* caller invokes which operation, and when, is said in the Next of each   *)
(* specification.                                                          *)
(***************************************************************************)
EXTENDS Integers, Sequences, FiniteSets, TLC

\* ------------------------------------------------------------- bounds
NumEntities == 2
MaxPending == 2
NumListeners == 1
NumCollisionListeners == 2
NumConfigListeners == 2

\* ------------------------------------------------------------- objects
Null == 0
EntityObjs == 1..NumEntities
ListenerObjs == 1..NumListeners
CollisionListenerObjs == 1..NumCollisionListeners

InputPriority == 5
MovementPriority == 10
CollisionPriority == 20
HealthPriority == 40
EnemySpawnPriority == 50
TimerPriority == 15
WeaponPriority == 30
RenderPriority == 100

\* The system instances of the model, each an instance of one concrete class.
SystemObjs == {"input", "movement", "collision", "collision2", "health", "spawn"}

Kind(s) ==
  CASE s = "input" -> "InputSystem"
    [] s = "movement" -> "MovementSystem"
    [] s \in {"collision", "collision2"} -> "CollisionSystem"
    [] s = "health" -> "HealthSystem"
    [] s = "spawn" -> "EnemySpawnSystem"
    [] s = "timer" -> "TimerSystem"
    [] s = "weapon" -> "WeaponSystem"
    [] s = "render" -> "RenderSystem"

Kinds == {Kind(s) : s \in SystemObjs}

\* Systems that all have the priority of the InputSystem.
getPriorityFlat(s) == InputPriority

\* System.getPriority: the value the subclass constructor passed to super().
getPriority(s) ==
  CASE Kind(s) = "InputSystem" -> InputPriority
    [] Kind(s) = "MovementSystem" -> MovementPriority
    [] Kind(s) = "CollisionSystem" -> CollisionPriority
    [] Kind(s) = "HealthSystem" -> HealthPriority
    [] Kind(s) = "EnemySpawnSystem" -> EnemySpawnPriority
    [] Kind(s) = "TimerSystem" -> TimerPriority
    [] Kind(s) = "WeaponSystem" -> WeaponPriority
    [] Kind(s) = "RenderSystem" -> RenderPriority

CollisionObjs == {s \in SystemObjs : Kind(s) = "CollisionSystem"}

\* Component objects: <<type identifier, n>>.  getType returns the class's TYPE.
TypeIds == {"Transform", "Collider"}
TransformObjs == {<<"Transform", n>> : n \in 1..NumEntities}
ColliderObjs == {<<"Collider", n>> : n \in 1..NumEntities}
CompObjs == TransformObjs \cup ColliderObjs
NoComp == <<"undefined", 0>>
getType(c) == c[1]

Tags == {"enemy", "player"}

\* Layers and masks are held as the 32-bit integers the `&` operator reads
\* them as: the default mask 0xFFFFFFFF is the int32 -1 (all 32 bits set).
AllBits == -1

\* getComponent(VelocityComponent.TYPE) of an entity without that component.
NoVelocity == <<>>

\* new TransformComponent(x, y) with the default rotation and scale.
DefaultRS == [rotation |-> 0, scaleX |-> 1, scaleY |-> 1]

\* new ColliderComponent() with the constructor's default arguments.
DefaultCollider ==
  [type |-> "RECTANGLE", width |-> 32, height |-> 32, radius |-> 16,
   offsetX |-> 0, offsetY |-> 0, layer |-> 1, mask |-> AllBits]

VARIABLES
  entities,          \* World.entities: the Map's keys in insertion order
  entitiesToAdd,     \* World.entitiesToAdd: array of entities
  entitiesToRemove,  \* World.entitiesToRemove: a Set's ids in insertion order
  systems,           \* World.systems: array of system instances
  entityListeners,   \* World.entityListeners: array of listeners
  sysActive,         \* System.active of each instance
  sysWorld,          \* System.world of each instance is set (TRUE) or null
  components,        \* Entity.components of each entity: type identifier -> component
  owner,             \* Component.owner of each component object
  tags,              \* Entity.tags of each entity
  entActive,         \* Entity.active of each entity
  tpos,              \* TransformComponent.x, .y of each transform object
  collider,          \* the fields of each ColliderComponent object
  velocity,          \* VelocityComponent.vx, .vy of each entity's velocity
                     \* component, or NoVelocity when it has none
  trs,               \* TransformComponent.rotation, .scaleX, .scaleY of each
                     \* transform object
  c1, c2,            \* a component object and the object a clone() of it returned
  heap,              \* the Map and Record objects the two hold, by address
  lastOp,            \* the last method called on one of the two
  configs,           \* ConfigLoader.weaponConfigs, .enemyConfigs, .itemConfigs
  configChangeListeners, \* ConfigLoader.configChangeListeners
  load,              \* the load call in progress or just returned
  isRunning,         \* Game.isRunning
  pool,              \* ObjectPool.pool: array of objects
  maxSize,           \* ObjectPool.maxSize
  poolOp,            \* the ObjectPool call in progress or just returned
  timerLog,          \* of each timer id since its addTimer: what was asked and
                     \* what the updates have done
  currentHealth,     \* HealthComponent.currentHealth of each entity's Health component
  entityDeathListeners, \* HealthSystem.entityDeathListeners
  deathLog,          \* the calls of death listeners so far, as <<listener, entity>>
  timeSinceLastSpawn, spawnInterval, difficultyMultiplier, maxEnemies,
                     \* the fields of the EnemySpawnSystem
  autoFire,          \* WeaponSystem.autoFire
  sinceFire,         \* the time the updates have given the weapon since it last fired
  collisionPairs,    \* CollisionSystem.collisionPairs: the Map's keys in insertion order
  collisionListeners,\* CollisionSystem.collisionListeners
  pc, idx, lidx,     \* position of the World.update in progress
  trace,             \* the registry writes and notifications of the update in
                     \* progress (or just returned), in order
  runLog,            \* the systems that update has updated, in order
  adds0, rems0, reg0,\* the two buffers and the registry at its start
  addOrder,          \* the registered systems in the order of their addSystem calls
  skipped,           \* the registered systems an update has passed over as inactive
  events,            \* the events the last CollisionSystem.update dispatched, in order
  overlapNow,        \* the pairs that collided at the last CollisionSystem.update
  vanished,          \* the pair ids recorded before that update of which it
                     \* found an entity gone from the registry
  movedInto,         \* the pairs the last MovementSystem.update brought from
                     \* apart to colliding
  dispatch,          \* of the last dispatchCollisionEvent: the listeners registered
                     \* when it was entered, those it has called, in order, and
                     \* those removed while it ran
  hookCalls          \* the init() and destroy() calls the last API call made, in order

worldVars == <<entities, entitiesToAdd, entitiesToRemove, systems, entityListeners>>
sysVars == <<sysActive, sysWorld>>
entVars == <<components, owner, tags, entActive, tpos, collider, velocity, trs>>
collVars == <<collisionPairs, collisionListeners>>
poolVars == <<pool, maxSize, poolOp>>
healthVars == <<currentHealth, entityDeathListeners, deathLog>>
spawnVars == <<timeSinceLastSpawn, spawnInterval, difficultyMultiplier, maxEnemies>>
weaponVars == <<autoFire, sinceFire>>
fieldVars == <<healthVars, spawnVars, weaponVars>>
otherVars == <<poolVars, timerLog, fieldVars>>
labVars ==
  <<c1, c2, heap, lastOp, configs, configChangeListeners, load, isRunning, otherVars>>
progVars == <<worldVars, sysVars, entVars, collVars, labVars>>
ctlVars == <<pc, idx, lidx>>
ghostVars == <<trace, runLog, adds0, rems0, reg0>>
histVars == <<addOrder, skipped>>
collGhost == <<events, overlapNow, vanished, dispatch, movedInto>>
vars == <<progVars, ctlVars, ghostVars, histVars, collGhost, hookCalls>>

\* ------------------------------------------------------------- helpers
Range(s) == {s[i] : i \in 1..Len(s)}

Count(s, x) == Cardinality({i \in 1..Len(s) : s[i] = x})

\* Array.prototype.findIndex / indexOf, 1-based; 0 when nothing matches.
FindIndex(s, P(_)) ==
  IF \E i \in 1..Len(s) : P(s[i])
    THEN CHOOSE i \in 1..Len(s) : P(s[i]) /\ \A j \in 1..(i - 1) : ~P(s[j])
    ELSE 0

\* Array.prototype.splice(index, 0, x) and splice(index, 1), 1-based.
InsertAt(s, i, x) == SubSeq(s, 1, i - 1) \o <<x>> \o SubSeq(s, i, Len(s))
RemoveAt(s, i) == SubSeq(s, 1, i - 1) \o SubSeq(s, i + 1, Len(s))

\* A keyed collection that keeps a second entry for a key it already holds.
KeyAddTwice(m, k) == Append(m, k)

\* Map.set(key, ..) / Set.add(key): a key already present keeps its place.
KeyAdd(m, k) == IF k \in Range(m) THEN m ELSE Append(m, k)
\* Map.delete(key).
KeyDelete(m, k) == SelectSeq(m, LAMBDA x : x # k)

\* No component object under study, a new ConfigLoader, a Game not running.
ConfigKinds == {"weapon", "enemy", "item"}
ConfigListenerObjs == 1..NumConfigListeners
NoObj == [kind |-> "none"]
IdleLoad ==
  [pc |-> "idle", kind |-> "none", text |-> "", before |-> <<>>, idx |-> 0,
   result |-> FALSE, registered |-> <<>>, delivered |-> <<>>, removed |-> {},
   stored |-> <<>>]
\* A new ObjectPool with the default capacity, no call made yet.
IdlePoolOp ==
  [pc |-> "idle", op |-> "none", calls |-> <<>>, returned |-> Null, made |-> 0,
   before |-> <<>>]
NoPool ==
  /\ pool = <<>> /\ maxSize = 100 /\ poolOp = IdlePoolOp
\* No addTimer call made yet.
LabTimerIds == {"t", "u"}
NoTimerLog ==
  [duration |-> 0, repeat |-> FALSE, elapsed |-> 0, fires |-> 0, firedFrom |-> 0,
   plain |-> FALSE, pausedAt |-> 0, firesAtPause |-> 0, resumedAt |-> 0]
IdleTimerLog == [id \in LabTimerIds |-> NoTimerLog]
\* No entity has a Health component; a HealthSystem, an EnemySpawnSystem and a
\* WeaponSystem as their constructors leave them.
NoHealth == 0 - 1
NoFields ==
  /\ currentHealth = [e \in EntityObjs |-> NoHealth]
  /\ entityDeathListeners = <<>> /\ deathLog = <<>>
  /\ timeSinceLastSpawn = 0 /\ spawnInterval = 2000
  /\ difficultyMultiplier = 1 /\ maxEnemies = 10
  /\ autoFire = FALSE /\ sinceFire = 0
OthersIdle ==
  /\ NoPool
  /\ timerLog = IdleTimerLog
  /\ NoFields
NoComponents ==
  c1 = NoObj /\ c2 = NoObj /\ heap = <<>> /\ lastOp = <<"none">>
NoLoader ==
  /\ configs = [k \in ConfigKinds |-> <<>>]
  /\ configChangeListeners = <<>>
  /\ load = IdleLoad
  /\ isRunning = FALSE
LabIdle ==
  /\ OthersIdle
  /\ NoComponents
  /\ NoLoader

Init ==
  /\ entities = <<>>
  /\ entitiesToAdd = <<>>
  /\ entitiesToRemove = <<>>
  /\ systems = <<>>
  /\ entityListeners = <<>>
  /\ sysActive = [s \in SystemObjs |-> TRUE]
  /\ sysWorld = [s \in SystemObjs |-> FALSE]
  /\ components = [e \in EntityObjs |-> [t \in TypeIds |-> NoComp]]
  /\ owner = [c \in CompObjs |-> Null]
  /\ tags = [e \in EntityObjs |-> {}]
  /\ entActive = [e \in EntityObjs |-> TRUE]
  /\ tpos = [c \in TransformObjs |-> <<0, 0>>]
  /\ collider = [c \in ColliderObjs |-> DefaultCollider]
  /\ velocity = [e \in EntityObjs |-> NoVelocity]
  /\ trs = [c \in TransformObjs |-> DefaultRS]
  /\ collisionPairs = [s \in CollisionObjs |-> <<>>]
  /\ collisionListeners = [s \in CollisionObjs |-> <<>>]
  /\ pc = "idle" /\ idx = 0 /\ lidx = 0
  /\ trace = <<>> /\ runLog = <<>> /\ adds0 = <<>> /\ rems0 = <<>> /\ reg0 = <<>>
  /\ addOrder = <<>> /\ skipped = {}
  /\ events = <<>> /\ overlapNow = {} /\ vanished = {} /\ movedInto = {} /\ hookCalls = <<>>
  /\ dispatch = [registered |-> <<>>, delivered |-> <<>>, removed |-> {}]
  /\ LabIdle

\* ------------------------------------------------------------- World
getEntity(id) == IF id \in Range(entities) THEN id ELSE Null
getEntities == entities
hasTag(e, tag) == tag \in tags[e]
getEntitiesByTag(tag) == SelectSeq(getEntities, LAMBDA e : hasTag(e, tag))

\* An addEntity that writes the registry at once instead of buffering.
AddEntityAtOnce(e) ==
  /\ hookCalls' = <<>>
  /\ entities' = IF e \in Range(entities) THEN entities ELSE Append(entities, e)
  /\ UNCHANGED <<entitiesToAdd, entitiesToRemove, systems, entityListeners,
                 sysVars, entVars, collVars, labVars>>

AddEntity(e) ==
  /\ hookCalls' = <<>>
  /\ entitiesToAdd' = Append(entitiesToAdd, e)
  /\ UNCHANGED <<entities, entitiesToRemove, systems, entityListeners, sysVars, entVars, collVars, labVars>>

RemoveEntity(id) ==
  /\ hookCalls' = <<>>
  /\ entitiesToRemove' = KeyAdd(entitiesToRemove, id)
  /\ UNCHANGED <<entities, entitiesToAdd, systems, entityListeners, sysVars, entVars, collVars, labVars>>

\* An insertion before the first priority that is greater or equal.
InsertIndexBeforeEqual(list, s) ==
  LET index == FindIndex(list, LAMBDA x : getPriority(x) >= getPriority(s))
  IN IF index = 0 THEN Len(list) + 1 ELSE index

\* The place addSystem inserts at: before the first strictly greater priority.
InsertIndex(list, s) ==
  LET index == FindIndex(list, LAMBDA x : getPriority(x) > getPriority(s))
  IN IF index = 0 THEN Len(list) + 1 ELSE index

AddSystem(s) ==
  /\ sysWorld' = [sysWorld EXCEPT ![s] = TRUE]
  /\ hookCalls' = <<<<"init", s>>>>
  /\ systems' = InsertAt(systems, InsertIndex(systems, s), s)
  /\ UNCHANGED <<entities, entitiesToAdd, entitiesToRemove, entityListeners, sysActive, entVars, collVars, labVars>>

\* A removeSystem that leaves the world back-reference of the system set.
RemoveSystemKeepsWorld(kind) ==
  LET index == FindIndex(systems, LAMBDA x : Kind(x) = kind)
  IN IF index # 0
       THEN /\ hookCalls' = <<<<"destroy", systems[index]>>>>
            /\ systems' = RemoveAt(systems, index)
            /\ UNCHANGED <<entities, entitiesToAdd, entitiesToRemove,
                           entityListeners, sysVars, entVars, collVars, labVars>>
       ELSE hookCalls' = <<>> /\ UNCHANGED progVars

RemoveSystem(kind) ==
  LET index == FindIndex(systems, LAMBDA x : Kind(x) = kind)
  IN IF index # 0
       THEN /\ hookCalls' = <<<<"destroy", systems[index]>>>>
            /\ sysWorld' = [sysWorld EXCEPT ![systems[index]] = FALSE]
            /\ systems' = RemoveAt(systems, index)
            /\ UNCHANGED <<entities, entitiesToAdd, entitiesToRemove,
                           entityListeners, sysActive, entVars, collVars, labVars>>
       ELSE hookCalls' = <<>> /\ UNCHANGED progVars

\* A system that is always taken to be active.
isActiveAlways(s) == TRUE

isActive(s) == sysActive[s]

SetActive(s, active) ==
  /\ hookCalls' = <<>>
  /\ sysActive' = [sysActive EXCEPT ![s] = active]
  /\ UNCHANGED <<worldVars, sysWorld, entVars, collVars, labVars>>

AddEntityListener(l) ==
  /\ hookCalls' = <<>>
  /\ entityListeners' = Append(entityListeners, l)
  /\ UNCHANGED <<entities, entitiesToAdd, entitiesToRemove, systems, sysVars, entVars, collVars, labVars>>

RemoveEntityListener(l) ==
  LET index == FindIndex(entityListeners, LAMBDA x : x = l)
  IN /\ entityListeners' =
          IF index # 0 THEN RemoveAt(entityListeners, index) ELSE entityListeners
     /\ hookCalls' = <<>>
     /\ UNCHANGED <<entities, entitiesToAdd, entitiesToRemove, systems, sysVars, entVars, collVars, labVars>>

\* A clear that leaves the pending additions in their buffer.
ClearKeepsPending ==
  /\ entities' = <<>>
  /\ entitiesToRemove' = <<>>
  /\ hookCalls' = [i \in 1..Len(systems) |-> <<"destroy", systems[i]>>]
  /\ sysWorld' = [s \in DOMAIN sysWorld |-> IF s \in Range(systems) THEN FALSE ELSE sysWorld[s]]
  /\ systems' = <<>>
  /\ UNCHANGED <<entitiesToAdd, entityListeners, sysActive, entVars, collVars, labVars>>

Clear ==
  /\ entities' = <<>>
  /\ entitiesToAdd' = <<>>
  /\ entitiesToRemove' = <<>>
  /\ hookCalls' = [i \in 1..Len(systems) |-> <<"destroy", systems[i]>>]
  /\ sysWorld' = [s \in DOMAIN sysWorld |-> IF s \in Range(systems) THEN FALSE ELSE sysWorld[s]]
  /\ systems' = <<>>
  /\ UNCHANGED <<entityListeners, sysActive, entVars, collVars, labVars>>

\* ------------------------------------------------------------- Entity
getComponent(e, type) == components[e][type]
hasComponent(e, type) == components[e][type] # NoComp

\* Array.from(this.components.values()), as the set of its elements.
getComponents(e) == {components[e][t] : t \in TypeIds} \ {NoComp}

\* An addComponent that leaves a slot already in use as it is.
AddComponentKeepsFirst(e, c) ==
  /\ hookCalls' = <<>>
  /\ components' = IF hasComponent(e, getType(c)) THEN components
                   ELSE [components EXCEPT ![e][getType(c)] = c]
  /\ owner' = [owner EXCEPT ![c] = e]
  /\ UNCHANGED <<worldVars, sysVars, collVars, labVars, tags, entActive, tpos, collider, velocity, trs>>

\* this.components.set(component.getType(), component); component.setOwner(this)
AddComponent(e, c) ==
  /\ hookCalls' = <<>>
  /\ components' = [components EXCEPT ![e][getType(c)] = c]
  /\ owner' = [owner EXCEPT ![c] = e]
  /\ UNCHANGED <<worldVars, sysVars, collVars, labVars, tags, entActive, tpos, collider, velocity, trs>>

RemoveComponent(e, type) ==
  IF hasComponent(e, type)
    THEN /\ owner' = [owner EXCEPT ![getComponent(e, type)] = Null]
         /\ components' = [components EXCEPT ![e][type] = NoComp]
         /\ hookCalls' = <<>>
         /\ UNCHANGED <<worldVars, sysVars, collVars, labVars, tags, entActive, tpos, collider, velocity, trs>>
    ELSE hookCalls' = <<>> /\ UNCHANGED progVars

AddTag(e, tag) ==
  /\ hookCalls' = <<>>
  /\ tags' = [tags EXCEPT ![e] = @ \cup {tag}]
  /\ UNCHANGED <<worldVars, sysVars, collVars, labVars, components, owner, entActive, tpos, collider, velocity, trs>>

\* this.tags.delete(tag)
RemoveTag(e, tag) ==
  /\ hookCalls' = <<>>
  /\ tags' = [tags EXCEPT ![e] = @ \ {tag}]
  /\ UNCHANGED <<worldVars, sysVars, collVars, labVars, components, owner, entActive, tpos, collider, velocity, trs>>

\* ------------------------------------------------------------- World.update
\* A call from outside any update: the previous update has returned.
Outside ==
  /\ pc \in {"idle", "done"}
  /\ pc' = "idle" /\ idx' = 0 /\ lidx' = 0
  /\ trace' = <<>> /\ runLog' = <<>> /\ adds0' = <<>> /\ rems0' = <<>> /\ reg0' = <<>>
  /\ UNCHANGED collGhost

\* What a lifecycle listener does when it is called.
EntityListenerCall(l, e, added) == UNCHANGED progVars

\* update is entered.  The two `if (... > 0)` around the flush loops only skip
\* a loop over nothing and the reset of an empty buffer.
UpdateStart ==
  /\ pc \in {"idle", "done"}
  /\ pc' = "flushAdd" /\ idx' = 1 /\ lidx' = 0
  /\ trace' = <<>> /\ runLog' = <<>>
  /\ adds0' = entitiesToAdd /\ rems0' = entitiesToRemove /\ reg0' = entities
  /\ hookCalls' = <<>>
  /\ UNCHANGED <<progVars, histVars, collGhost>>

\* for (const entity of this.entitiesToAdd): this.entities.set(entityId, entity)
FlushAddEntity ==
  /\ pc = "flushAdd" /\ lidx = 0 /\ idx <= Len(entitiesToAdd)
  /\ entities' = KeyAdd(entities, entitiesToAdd[idx])
  /\ trace' = Append(trace, <<"set", entitiesToAdd[idx], 0>>)
  /\ IF Len(entityListeners) = 0
       THEN idx' = idx + 1 /\ lidx' = 0
       ELSE idx' = idx /\ lidx' = 1
  /\ UNCHANGED <<pc, runLog, adds0, rems0, reg0, histVars, collGhost, hookCalls>>
  /\ UNCHANGED <<entitiesToAdd, entitiesToRemove, systems, entityListeners,
                 sysVars, entVars, collVars, labVars>>

\* for (const listener of this.entityListeners): listener(entity, true)
NotifyAdded ==
  /\ pc = "flushAdd" /\ lidx >= 1 /\ lidx <= Len(entityListeners)
  /\ EntityListenerCall(entityListeners[lidx], entitiesToAdd[idx], TRUE)
  /\ trace' = Append(trace, <<"added", entitiesToAdd[idx], entityListeners[lidx]>>)
  /\ IF lidx + 1 > Len(entityListeners')
       THEN idx' = idx + 1 /\ lidx' = 0
       ELSE idx' = idx /\ lidx' = lidx + 1
  /\ UNCHANGED <<pc, runLog, adds0, rems0, reg0, histVars, collGhost, hookCalls>>

\* An update that goes from the additions straight to the systems.
FlushAddDoneSkipsRemovals ==
  /\ pc = "flushAdd" /\ lidx = 0 /\ idx > Len(entitiesToAdd)
  /\ entitiesToAdd' = <<>>
  /\ pc' = "systems" /\ idx' = 1 /\ lidx' = 0
  /\ UNCHANGED <<ghostVars, histVars, collGhost, hookCalls>>
  /\ UNCHANGED <<entities, entitiesToRemove, systems, entityListeners,
                 sysVars, entVars, collVars, labVars>>

\* this.entitiesToAdd = []
FlushAddDone ==
  /\ pc = "flushAdd" /\ lidx = 0 /\ idx > Len(entitiesToAdd)
  /\ entitiesToAdd' = <<>>
  /\ pc' = "flushRemove" /\ idx' = 1 /\ lidx' = 0
  /\ UNCHANGED <<ghostVars, histVars, collGhost, hookCalls>>
  /\ UNCHANGED <<entities, entitiesToRemove, systems, entityListeners,
                 sysVars, entVars, collVars, labVars>>

\* for (const entityId of this.entitiesToRemove): if (entity) this.entities.delete
\* A removal flush that does not look whether the registry holds the id.
FlushRemoveEntityUnchecked ==
  /\ pc = "flushRemove" /\ lidx = 0 /\ idx <= Len(entitiesToRemove)
  /\ entities' = KeyDelete(entities, entitiesToRemove[idx])
  /\ trace' = Append(trace, <<"delete", entitiesToRemove[idx], 0>>)
  /\ IF Len(entityListeners) = 0
       THEN idx' = idx + 1 /\ lidx' = 0
       ELSE idx' = idx /\ lidx' = 1
  /\ UNCHANGED <<pc, runLog, adds0, rems0, reg0, histVars, collGhost, hookCalls>>
  /\ UNCHANGED <<entitiesToAdd, entitiesToRemove, systems, entityListeners,
                 sysVars, entVars, collVars, labVars>>

FlushRemoveEntity ==
  /\ pc = "flushRemove" /\ lidx = 0 /\ idx <= Len(entitiesToRemove)
  /\ LET entity == getEntity(entitiesToRemove[idx])
     IN IF entity # Null
          THEN /\ entities' = KeyDelete(entities, entitiesToRemove[idx])
               /\ trace' = Append(trace, <<"delete", entity, 0>>)
               /\ IF Len(entityListeners) = 0
                    THEN idx' = idx + 1 /\ lidx' = 0
                    ELSE idx' = idx /\ lidx' = 1
          ELSE /\ idx' = idx + 1 /\ lidx' = 0
               /\ UNCHANGED <<entities, trace>>
  /\ UNCHANGED <<pc, runLog, adds0, rems0, reg0, histVars, collGhost, hookCalls>>
  /\ UNCHANGED <<entitiesToAdd, entitiesToRemove, systems, entityListeners,
                 sysVars, entVars, collVars, labVars>>

\* for (const listener of this.entityListeners): listener(entity, false)
NotifyRemoved ==
  /\ pc = "flushRemove" /\ lidx >= 1 /\ lidx <= Len(entityListeners)
  /\ EntityListenerCall(entityListeners[lidx], entitiesToRemove[idx], FALSE)
  /\ trace' = Append(trace, <<"removed", entitiesToRemove[idx], entityListeners[lidx]>>)
  /\ IF lidx + 1 > Len(entityListeners')
       THEN idx' = idx + 1 /\ lidx' = 0
       ELSE idx' = idx /\ lidx' = lidx + 1
  /\ UNCHANGED <<pc, runLog, adds0, rems0, reg0, histVars, collGhost, hookCalls>>

\* this.entitiesToRemove.clear()
FlushRemoveDone ==
  /\ pc = "flushRemove" /\ lidx = 0 /\ idx > Len(entitiesToRemove)
  /\ entitiesToRemove' = <<>>
  /\ pc' = "systems" /\ idx' = 1 /\ lidx' = 0
  /\ UNCHANGED <<ghostVars, histVars, collGhost, hookCalls>>
  /\ UNCHANGED <<entities, entitiesToAdd, systems, entityListeners,
                 sysVars, entVars, collVars, labVars>>

\* for (const system of this.systems): if (system.isActive()) system.update(dt)
\* Update(s) is the body of the update of system s.
RunSystem(Update(_)) ==
  /\ pc = "systems" /\ idx <= Len(systems)
  /\ IF isActive(systems[idx])
       THEN /\ Update(systems[idx])
            /\ runLog' = Append(runLog, systems[idx])
            /\ UNCHANGED skipped
       ELSE /\ skipped' = skipped \cup {systems[idx]}
            /\ UNCHANGED <<progVars, runLog, collGhost, hookCalls>>
  /\ idx' = idx + 1
  /\ UNCHANGED <<pc, lidx, trace, adds0, rems0, reg0, addOrder>>

\* update returns.
UpdateReturn ==
  /\ pc = "systems" /\ idx > Len(systems)
  /\ pc' = "done"
  /\ UNCHANGED <<idx, lidx, ghostVars, histVars, collGhost, hookCalls, progVars>>

\* ------------------------------------------------------------- systems
\* EnemySpawnSystem.update: spawnEnemy() hands a new entity to addEntity when
\* the spawn interval has elapsed and there is room, and does nothing otherwise.
EnemySpawnUpdate ==
  /\ UNCHANGED collGhost
  /\ \/ UNCHANGED <<progVars, hookCalls>>
     \/ \E e \in EntityObjs :
          /\ Len(entitiesToAdd) < MaxPending
          /\ AddEntity(e)

\* HealthSystem.update: handleEntityDeath() passes the id of each entity of
\* the registry it finds dead to removeEntity.
HealthUpdate ==
  /\ UNCHANGED collGhost
  /\ \/ UNCHANGED <<progVars, hookCalls>>
     \/ \E e \in Range(getEntities) : RemoveEntity(e)

\* A system whose update calls nothing of the World.
PassiveUpdate == UNCHANGED <<progVars, collGhost, hookCalls>>

\* ------------------------------------------------------------- CollisionSystem
\* `a & b` of JavaScript: both operands as 32-bit two's complement integers,
\* bit SignBit being the sign.
SignBit == 31

Bit(n, i) ==
  IF n >= 0 THEN (n \div (2 ^ i)) % 2 ELSE 1 - ((((-n) - 1) \div (2 ^ i)) % 2)

RECURSIVE AndBits(_, _, _)
AndBits(a, b, i) ==
  IF i < 0 THEN 0 ELSE Bit(a, i) * Bit(b, i) * (2 ^ i) + AndBits(a, b, i - 1)

BitAnd(a, b) ==
  IF a < 0 /\ b < 0
    THEN (AndBits(a, b, SignBit - 1) - 2 ^ (SignBit - 1)) - 2 ^ (SignBit - 1)
    ELSE AndBits(a, b, SignBit - 1)

\* A collider that can collide with every layer.
canCollideWithAny(c, layer) == TRUE

\* ColliderComponent.canCollideWith of collider object c.
canCollideWith(c, layer) == BitAnd(collider[c].mask, layer) # 0

getCollisionLayer(c) == collider[c].layer

\* Bounds that grow with the scale of the transform.
getBoundsScaled(c, t) ==
  LET x == tpos[t][1] + collider[c].offsetX
      y == tpos[t][2] + collider[c].offsetY
  IN IF collider[c].type = "CIRCLE"
       THEN [x |-> x - collider[c].radius, y |-> y - collider[c].radius,
             width |-> collider[c].radius * 2, height |-> collider[c].radius * 2]
       ELSE [x |-> x, y |-> y, width |-> collider[c].width * trs[t].scaleX,
             height |-> collider[c].height * trs[t].scaleY]

\* ColliderComponent.getBounds of collider object c for the transform object t.
getBounds(c, t) ==
  LET x == tpos[t][1] + collider[c].offsetX
      y == tpos[t][2] + collider[c].offsetY
  IN IF collider[c].type = "CIRCLE"
       THEN [x |-> x - collider[c].radius, y |-> y - collider[c].radius,
             width |-> collider[c].radius * 2, height |-> collider[c].radius * 2]
       ELSE [x |-> x, y |-> y, width |-> collider[c].width, height |-> collider[c].height]

Max(a, b) == IF a > b THEN a ELSE b
Min(a, b) == IF a < b THEN a ELSE b

\* Math.sqrt(d2) < r for integers d2 >= 0 and r.
SqrtLess(d2, r) == r > 0 /\ d2 < r * r

checkCircleCircleCollision(tA, cA, tB, cB) ==
  LET dx == (tpos[tB][1] + collider[cB].offsetX) - (tpos[tA][1] + collider[cA].offsetX)
      dy == (tpos[tB][2] + collider[cB].offsetY) - (tpos[tA][2] + collider[cA].offsetY)
  IN SqrtLess(dx * dx + dy * dy, collider[cA].radius + collider[cB].radius)

\* A rectangle test that also accepts rectangles that only touch.
checkRectRectCollisionTouching(tA, cA, tB, cB) ==
  LET boundsA == getBounds(cA, tA)
      boundsB == getBounds(cB, tB)
  IN /\ boundsA.x <= boundsB.x + boundsB.width
     /\ boundsA.x + boundsA.width >= boundsB.x
     /\ boundsA.y <= boundsB.y + boundsB.height
     /\ boundsA.y + boundsA.height >= boundsB.y

checkRectRectCollision(tA, cA, tB, cB) ==
  LET boundsA == getBounds(cA, tA)
      boundsB == getBounds(cB, tB)
  IN /\ boundsA.x < boundsB.x + boundsB.width
     /\ boundsA.x + boundsA.width > boundsB.x
     /\ boundsA.y < boundsB.y + boundsB.height
     /\ boundsA.y + boundsA.height > boundsB.y

checkCircleRectCollision(circleT, circleC, rectT, rectC) ==
  LET circleX == tpos[circleT][1] + collider[circleC].offsetX
      circleY == tpos[circleT][2] + collider[circleC].offsetY
      rectBounds == getBounds(rectC, rectT)
      closestX == Max(rectBounds.x, Min(circleX, rectBounds.x + rectBounds.width))
      closestY == Max(rectBounds.y, Min(circleY, rectBounds.y + rectBounds.height))
      dx == closestX - circleX
      dy == closestY - circleY
  IN SqrtLess(dx * dx + dy * dy, collider[circleC].radius)

checkCollision(entityA, entityB) ==
  LET transformA == getComponent(entityA, "Transform")
      colliderA == getComponent(entityA, "Collider")
      transformB == getComponent(entityB, "Transform")
      colliderB == getComponent(entityB, "Collider")
  IN IF NoComp \in {transformA, colliderA, transformB, colliderB} THEN FALSE
     ELSE IF collider[colliderA].type = "CIRCLE" /\ collider[colliderB].type = "CIRCLE"
       THEN checkCircleCircleCollision(transformA, colliderA, transformB, colliderB)
     ELSE IF collider[colliderA].type = "RECTANGLE" /\ collider[colliderB].type = "RECTANGLE"
       THEN checkRectRectCollision(transformA, colliderA, transformB, colliderB)
     ELSE IF collider[colliderA].type = "CIRCLE"
       THEN checkCircleRectCollision(transformA, colliderA, transformB, colliderB)
       ELSE checkCircleRectCollision(transformB, colliderB, transformA, colliderA)

\* Entity.getId: the number of the entity object stands for its id string.
getId(e) == e

\* A pair id is the string `${idA}:${idB}`, held as its three pieces.
Colon == 0
\* A pair id that keeps the two ids in the order of the arguments.
getCollisionPairIdAsGiven(entityA, entityB) ==
  <<getId(entityA), Colon, getId(entityB)>>

getCollisionPairId(entityA, entityB) ==
  IF getId(entityA) < getId(entityB)
    THEN <<getId(entityA), Colon, getId(entityB)>>
    ELSE <<getId(entityB), Colon, getId(entityA)>>

\* pairId.split(':'): the pieces between the colons (an id holds no colon).
Split(pairId) == SelectSeq(pairId, LAMBDA piece : piece # Colon)

\* A look-up that takes the two ids for entities without asking the World.
getEntitiesFromPairIdUnchecked(s, pairId) ==
  <<Split(pairId)[1], Split(pairId)[2]>>

getEntitiesFromPairId(s, pairId) ==
  IF ~sysWorld[s] THEN <<Null, Null>>
  ELSE <<getEntity(Split(pairId)[1]), getEntity(Split(pairId)[2])>>

filter(e) == hasComponent(e, "Transform") /\ hasComponent(e, "Collider")

\* The layer test of bruteForceCollisionDetection for colliders cA and cB.
LayersMatch(cA, cB) ==
  ~(\/ ~canCollideWith(cA, getCollisionLayer(cB))
    \/ ~canCollideWith(cB, getCollisionLayer(cA)))

\* bruteForceCollisionDetection from the pair (i, j) of the two for loops on;
\* current is currentCollisionPairs so far.
RECURSIVE bruteForceCollisionDetection(_, _, _, _)
bruteForceCollisionDetection(list, i, j, current) ==
  IF i > Len(list) THEN current
  ELSE IF j > Len(list) THEN bruteForceCollisionDetection(list, i + 1, i + 2, current)
  ELSE bruteForceCollisionDetection(list, i, j + 1,
         IF /\ LayersMatch(getComponent(list[i], "Collider"), getComponent(list[j], "Collider"))
            /\ checkCollision(list[i], list[j])
           THEN KeyAdd(current, getCollisionPairId(list[i], list[j]))
           ELSE current)

\* The events of one of the two loops of processCollisionEvents: one for every
\* pair id of `pairIds` whose two entities getEntity finds.
EventsOf(s, pairIds, TypeOf(_)) ==
  LET found == SelectSeq(pairIds, LAMBDA p :
                 getEntitiesFromPairId(s, p)[1] # Null /\ getEntitiesFromPairId(s, p)[2] # Null)
  IN [k \in 1..Len(found) |->
        <<TypeOf(found[k]), getEntitiesFromPairId(s, found[k])[1],
          getEntitiesFromPairId(s, found[k])[2]>>]

\* processCollisionEvents: the events it dispatches, in order.
processCollisionEvents(s, current) ==
  EventsOf(s, current,
           LAMBDA p : IF p \notin Range(collisionPairs[s]) THEN "ENTER" ELSE "STAY")
    \o EventsOf(s, SelectSeq(collisionPairs[s], LAMBDA p : p \notin Range(current)),
                LAMBDA p : "EXIT")

\* What a collision listener does when it is called.
CollisionListenerCall(l, event) == UNCHANGED progVars

\* this.collisionListeners.push(listener)
AddCollisionListener(s, l) ==
  /\ hookCalls' = <<>>
  /\ collisionListeners' = [collisionListeners EXCEPT ![s] = Append(@, l)]
  /\ UNCHANGED <<worldVars, sysVars, entVars, collisionPairs, labVars>>

\* indexOf(listener), then splice(index, 1) when it is found.
RemoveCollisionListener(s, l) ==
  LET index == FindIndex(collisionListeners[s], LAMBDA x : x = l)
  IN /\ hookCalls' = <<>>
     /\ collisionListeners' =
          [collisionListeners EXCEPT ![s] = IF index # 0 THEN RemoveAt(@, index) ELSE @]
     /\ UNCHANGED <<worldVars, sysVars, entVars, collisionPairs, labVars>>

\* dispatchCollisionEvent is entered: for (const listener of this.collisionListeners).
DispatchStart(s) ==
  /\ pc \in {"idle", "done"}
  /\ pc' = "dispatch" /\ lidx' = 1
  /\ dispatch' = [registered |-> collisionListeners[s], delivered |-> <<>>, removed |-> {}]
  /\ UNCHANGED <<progVars, idx, ghostVars, histVars, events, overlapNow, vanished, movedInto, hookCalls>>

\* One turn of the loop: the listener at the iterator's index is called, and
\* its callback does nothing to the list, or removes a listener from it, or
\* adds one that is not in it.
DispatchCall(s) ==
  /\ pc = "dispatch" /\ lidx <= Len(collisionListeners[s])
  /\ \/ /\ UNCHANGED <<progVars, hookCalls>>
        /\ dispatch' = [dispatch EXCEPT !.delivered = Append(@, collisionListeners[s][lidx])]
     \/ \E l \in Range(collisionListeners[s]) :
          /\ RemoveCollisionListener(s, l)
          /\ dispatch' = [dispatch EXCEPT !.delivered = Append(@, collisionListeners[s][lidx]),
                                           !.removed = @ \cup {l}]
     \/ \E l \in CollisionListenerObjs \ Range(collisionListeners[s]) :
          /\ AddCollisionListener(s, l)
          /\ dispatch' = [dispatch EXCEPT !.delivered = Append(@, collisionListeners[s][lidx])]
  /\ lidx' = lidx + 1
  /\ UNCHANGED <<pc, idx, ghostVars, histVars, events, overlapNow, vanished, movedInto>>

\* The loop ends when the iterator's index is past the end of the list.
DispatchReturn(s) ==
  /\ pc = "dispatch" /\ lidx > Len(collisionListeners[s])
  /\ pc' = "done"
  /\ UNCHANGED <<progVars, idx, lidx, ghostVars, histVars, collGhost, hookCalls>>

\* Every entity with a transform and a collider, active or not.
CollidableInactiveToo == SelectSeq(getEntities, LAMBDA e : filter(e))

\* The entities CollisionSystem.update looks at.
Collidable == SelectSeq(getEntities, LAMBDA e : filter(e) /\ entActive[e])

\* The pairs of entities of the registry that collide as things stand: both
\* active with a transform and a collider, layers matching both ways, shapes
\* overlapping.
Colliding ==
  {pair \in SUBSET Range(getEntities) :
     /\ Cardinality(pair) = 2
     /\ \A e \in pair : filter(e) /\ entActive[e]
     /\ \E a \in pair, b \in pair :
          /\ a # b
          /\ LayersMatch(getComponent(a, "Collider"), getComponent(b, "Collider"))
          /\ checkCollision(a, b)}

\* The recorded pair ids of which an entity is not in the registry.
Vanished(s) ==
  {p \in Range(collisionPairs[s]) : \E i \in {1, 3} : p[i] \notin Range(getEntities)}

\* A CollisionSystem.update that forgets to store the pairs of this frame.
CollisionUpdateKeepsOldPairs(s) ==
  IF ~sysWorld[s] THEN UNCHANGED <<progVars, collGhost, hookCalls>>
  ELSE LET current == bruteForceCollisionDetection(Collidable, 1, 2, <<>>)
       IN /\ events' = processCollisionEvents(s, current)
          /\ overlapNow' = Colliding
          /\ vanished' = Vanished(s)
          /\ UNCHANGED <<dispatch, movedInto>>
          /\ UNCHANGED <<progVars, hookCalls>>

\* CollisionSystem.update.
CollisionUpdate(s) ==
  IF ~sysWorld[s] THEN UNCHANGED <<progVars, collGhost, hookCalls>>
  ELSE LET current == bruteForceCollisionDetection(Collidable, 1, 2, <<>>)
       IN /\ events' = processCollisionEvents(s, current)
          /\ collisionPairs' = [collisionPairs EXCEPT ![s] = current]
          /\ overlapNow' = Colliding
          /\ vanished' = Vanished(s)
          /\ UNCHANGED <<dispatch, movedInto>>
          /\ UNCHANGED <<worldVars, sysVars, entVars, collisionListeners, labVars, hookCalls>>

\* ------------------------------------------------------------- MovementSystem
\* The MovementSystem of Game, new MovementSystem(canvas.width, canvas.height,
\* 'bounce'), on a small canvas.
canvasWidth == 200
canvasHeight == 200
boundaryMode == "bounce"

\* deltaTime of an update; velocities are in pixels per deltaTime.
deltaTime == 1

\* MovementSystem.filter.
MovementFilter(e) == hasComponent(e, "Transform") /\ velocity[e] # NoVelocity

\* VelocityComponent.applyFriction: every velocity component is built with
\* friction 0, for which the method changes nothing.
applyFriction(v) == v

\* handleBoundaries: the position and the velocity it leaves.
handleBoundaries(p, v) ==
  IF boundaryMode = "none" THEN [pos |-> p, vel |-> v]
  ELSE IF boundaryMode = "wrap"
    THEN [pos |-> <<IF p[1] < 0 THEN canvasWidth
                    ELSE IF p[1] > canvasWidth THEN 0 ELSE p[1],
                    IF p[2] < 0 THEN canvasHeight
                    ELSE IF p[2] > canvasHeight THEN 0 ELSE p[2]>>,
          vel |-> v]
  ELSE [pos |-> <<IF p[1] < 0 THEN 0
                  ELSE IF p[1] > canvasWidth THEN canvasWidth ELSE p[1],
                  IF p[2] < 0 THEN 0
                  ELSE IF p[2] > canvasHeight THEN canvasHeight ELSE p[2]>>,
        vel |-> <<IF p[1] < 0 \/ p[1] > canvasWidth THEN -v[1] ELSE v[1],
                  IF p[2] < 0 \/ p[2] > canvasHeight THEN -v[2] ELSE v[2]>>]

\* updateEntityPosition: the position and the velocity of entity e after it.
updateEntityPosition(e) ==
  LET t == tpos[getComponent(e, "Transform")]
      v == applyFriction(velocity[e])
  IN handleBoundaries(<<t[1] + v[1] * deltaTime, t[2] + v[2] * deltaTime>>, v)

\* MovementSystem.update.  No two entities share a transform object.
MovementUpdate(s) ==
  IF ~sysWorld[s] THEN UNCHANGED <<progVars, collGhost, hookCalls>>
  ELSE LET movable == {e \in Range(getEntities) : MovementFilter(e) /\ entActive[e]}
       IN /\ tpos' = [t \in TransformObjs |->
                        IF \E e \in movable : getComponent(e, "Transform") = t
                          THEN updateEntityPosition(
                                 CHOOSE e \in movable : getComponent(e, "Transform") = t).pos
                          ELSE tpos[t]]
          /\ velocity' = [e \in EntityObjs |->
                            IF e \in movable THEN updateEntityPosition(e).vel
                            ELSE velocity[e]]
          /\ UNCHANGED <<worldVars, sysVars, collVars, labVars, components, owner, tags,
                         entActive, collider, trs, hookCalls>>
          /\ movedInto' = Colliding' \ Colliding
          /\ UNCHANGED <<events, overlapNow, vanished, dispatch>>

\* ------------------------------------------------------------- components
\* The component classes.  A component object is a record of its fields; a
\* field that holds a Map or a Record holds the address of that object in
\* `heap`.  Every method is an operator from the heap and the object to the
\* heap and the object after the call.
MaxVal == 1
Vals == 0..MaxVal

\* Map and Record objects: their entries in insertion order.
MapHas(m, k) == \E i \in 1..Len(m) : m[i][1] = k
MapGet(m, k) == m[CHOOSE i \in 1..Len(m) : m[i][1] = k][2]
MapSet(m, k, v) ==
  IF MapHas(m, k) THEN [i \in 1..Len(m) |-> IF m[i][1] = k THEN <<k, v>> ELSE m[i]]
  ELSE Append(m, <<k, v>>)
MapDelete(m, k) == SelectSeq(m, LAMBDA kv : kv[1] # k)

\* A method that allocates nothing and touches no Map.
Same(h, c) == [obj |-> c, heap |-> h]

\* ---- TransformComponent
NewTransform(x, y, rotation, scaleX, scaleY) ==
  [kind |-> "Transform", owner |-> Null, x |-> x, y |-> y,
   rotation |-> rotation, scaleX |-> scaleX, scaleY |-> scaleY]
TransformSetPosition(c, x, y) == [c EXCEPT !.x = x, !.y = y]
TransformSetRotation(c, rotation) == [c EXCEPT !.rotation = rotation]
TransformSetScale(c, scaleX, scaleY) == [c EXCEPT !.scaleX = scaleX, !.scaleY = scaleY]
TransformClone(h, c) ==
  Same(h, NewTransform(c.x, c.y, c.rotation, c.scaleX, c.scaleY))
TransformMutations(h, c) ==
  {Same(h, TransformSetPosition(c, x, y)) : x \in Vals, y \in Vals}
    \cup {Same(h, TransformSetRotation(c, r)) : r \in Vals}
    \cup {Same(h, TransformSetScale(c, s, s)) : s \in Vals}

\* ---- VelocityComponent
\* Math.sqrt, rounded down to an integer.
ISqrt(n) == CHOOSE k \in 0..n : k * k <= n /\ (k + 1) * (k + 1) > n
NewVelocity(vx, vy, maxSpeed, friction) ==
  [kind |-> "Velocity", owner |-> Null, vx |-> vx, vy |-> vy,
   maxSpeed |-> maxSpeed, friction |-> friction]
clampSpeed(c) ==
  LET speed == ISqrt(c.vx * c.vx + c.vy * c.vy)
  IN IF speed > c.maxSpeed
       THEN [c EXCEPT !.vx = (c.vx * c.maxSpeed) \div speed,
                      !.vy = (c.vy * c.maxSpeed) \div speed]
       ELSE c
VelocitySetVelocity(c, vx, vy) == clampSpeed([c EXCEPT !.vx = vx, !.vy = vy])
VelocityAddVelocity(c, vx, vy) == clampSpeed([c EXCEPT !.vx = @ + vx, !.vy = @ + vy])
VelocityClone(h, c) == Same(h, NewVelocity(c.vx, c.vy, c.maxSpeed, c.friction))
VelocityMutations(h, c) ==
  {Same(h, VelocitySetVelocity(c, vx, vy)) : vx \in Vals, vy \in Vals}
    \cup {Same(h, VelocityAddVelocity(c, vx, 0)) : vx \in Vals}

\* ---- ColliderComponent
NewCollider(type, width, height, radius, offsetX, offsetY, isTrigger, collisionLayer, collisionMask) ==
  [kind |-> "Collider", owner |-> Null, type |-> type, width |-> width,
   height |-> height, radius |-> radius, offsetX |-> offsetX, offsetY |-> offsetY,
   isTrigger |-> isTrigger, collisionLayer |-> collisionLayer,
   collisionMask |-> collisionMask]
ColliderSetWidth(c, width) == [c EXCEPT !.width = width]
ColliderSetTrigger(c, isTrigger) == [c EXCEPT !.isTrigger = isTrigger]
ColliderSetCollisionLayer(c, layer) == [c EXCEPT !.collisionLayer = layer]
ColliderSetCollisionMask(c, mask) == [c EXCEPT !.collisionMask = mask]
ColliderClone(h, c) ==
  Same(h, NewCollider(c.type, c.width, c.height, c.radius, c.offsetX, c.offsetY,
                      c.isTrigger, c.collisionLayer, c.collisionMask))
ColliderMutations(h, c) ==
  {Same(h, ColliderSetWidth(c, w)) : w \in Vals}
    \cup {Same(h, ColliderSetTrigger(c, b)) : b \in BOOLEAN}
    \cup {Same(h, ColliderSetCollisionLayer(c, l)) : l \in Vals}
    \cup {Same(h, ColliderSetCollisionMask(c, m)) : m \in Vals}

\* ---- HealthComponent
NewHealth(maxHealth, invincibilityTime) ==
  [kind |-> "Health", owner |-> Null, maxHealth |-> maxHealth,
   currentHealth |-> maxHealth, invincible |-> FALSE,
   invincibilityTime |-> invincibilityTime, currentInvincibilityTime |-> 0]
HealthSetMaxHealth(c, maxHealth) ==
  [c EXCEPT !.maxHealth = maxHealth, !.currentHealth = Min(c.currentHealth, maxHealth)]
HealthSetCurrentHealth(c, health) ==
  [c EXCEPT !.currentHealth = Max(0, Min(health, c.maxHealth))]
HealthHeal(c, amount) ==
  [c EXCEPT !.currentHealth = Min(c.currentHealth + amount, c.maxHealth)]
\* A damage that does not look at this.invincible.
HealthDamageThroughShield(c, amount) ==
  LET health == Max(0, c.currentHealth - amount)
  IN IF c.invincibilityTime > 0 /\ c.currentHealth > health
       THEN [c EXCEPT !.currentHealth = health, !.invincible = TRUE,
                      !.currentInvincibilityTime = c.invincibilityTime]
       ELSE [c EXCEPT !.currentHealth = health]
HealthDamage(c, amount) ==
  IF c.invincible THEN c
  ELSE LET health == Max(0, c.currentHealth - amount)
       IN IF c.invincibilityTime > 0 /\ c.currentHealth > health
            THEN [c EXCEPT !.currentHealth = health, !.invincible = TRUE,
                           !.currentInvincibilityTime = c.invincibilityTime]
            ELSE [c EXCEPT !.currentHealth = health]
HealthSetInvincible(c, invincible) ==
  IF ~invincible
    THEN [c EXCEPT !.invincible = invincible, !.currentInvincibilityTime = 0]
    ELSE [c EXCEPT !.invincible = invincible]
HealthUpdateInvincibility(c, dt) ==
  IF c.invincible /\ c.currentInvincibilityTime > 0
    THEN [c EXCEPT !.currentInvincibilityTime = @ - dt,
                   !.invincible = ~(c.currentInvincibilityTime - dt <= 0)]
    ELSE c
HealthClone(h, c) ==
  Same(h, HealthSetInvincible(
            HealthSetCurrentHealth(NewHealth(c.maxHealth, c.invincibilityTime),
                                   c.currentHealth),
            c.invincible))
HealthMutations(h, c) ==
  {Same(h, HealthSetCurrentHealth(c, v)) : v \in Vals}
    \cup {Same(h, HealthDamage(c, v)) : v \in Vals}
    \cup {Same(h, HealthHeal(c, v)) : v \in Vals}
    \cup {Same(h, HealthSetInvincible(c, b)) : b \in BOOLEAN}
    \cup {Same(h, HealthUpdateInvincibility(c, v)) : v \in Vals \ {0}}

\* ---- RenderComponent
\* An HTMLImageElement is held by reference and never written by the
\* component; a canvas is <<width, height, what was drawn>>, <<>> for null.
ImageObjs == {"img"}
NoImage == "null"
ImageSize(image) == MaxVal
NewRender(width, height, color, alpha) ==
  [kind |-> "Render", owner |-> Null, image |-> NoImage, width |-> width,
   height |-> height, color |-> color, alpha |-> alpha, visible |-> TRUE,
   offscreenCanvas |-> <<>>]
createOffscreenCanvas(c) ==
  IF c.width <= 0 \/ c.height <= 0 THEN c
  ELSE [c EXCEPT !.offscreenCanvas =
          <<c.width, c.height, IF c.image # NoImage THEN c.image ELSE c.color>>]
RenderSetImage(c, image) ==
  createOffscreenCanvas(
    [c EXCEPT !.image = image, !.width = ImageSize(image), !.height = ImageSize(image)])
RenderSetSize(c, width, height) ==
  createOffscreenCanvas([c EXCEPT !.width = width, !.height = height])
RenderSetColor(c, color) == createOffscreenCanvas([c EXCEPT !.color = color])
RenderSetAlpha(c, alpha) == [c EXCEPT !.alpha = Max(0, Min(1, alpha))]
RenderSetVisible(c, visible) == [c EXCEPT !.visible = visible]
RenderClone(h, c) ==
  LET clone == NewRender(c.width, c.height, c.color, c.alpha)
  IN Same(h, RenderSetVisible(
               IF c.image # NoImage THEN RenderSetImage(clone, c.image) ELSE clone,
               c.visible))
RenderMutations(h, c) ==
  {Same(h, RenderSetImage(c, i)) : i \in ImageObjs}
    \cup {Same(h, RenderSetSize(c, v, v)) : v \in Vals}
    \cup {Same(h, RenderSetColor(c, col)) : col \in {"#FFFFFF", "#FF0000"}}
    \cup {Same(h, RenderSetAlpha(c, v)) : v \in Vals}
    \cup {Same(h, RenderSetVisible(c, b)) : b \in BOOLEAN}

\* ---- objects on the heap
\* `new Map()`, `{}`, `{ ...record }`: a new object with the entries `entries`.
Alloc(h, entries) == [heap |-> Append(h, entries), addr |-> Len(h) + 1]
HeapSet(h, addr, entries) == [h EXCEPT ![addr] = entries]

\* ---- WeaponComponent
NoSound == "null"
SpecialKeys == {"piercing"}
NewWeapon(h, weaponType, damage, cooldown, projectileSpeed, projectileLifetime, spread, projectileCount, texture, soundEffect, specialProperties) ==
  LET own == Alloc(h, h[specialProperties])
  IN [obj |-> [kind |-> "Weapon", owner |-> Null, weaponType |-> weaponType,
               damage |-> damage, cooldown |-> cooldown, currentCooldown |-> 0,
               projectileSpeed |-> projectileSpeed,
               projectileLifetime |-> projectileLifetime, spread |-> spread,
               projectileCount |-> projectileCount, texture |-> texture,
               soundEffect |-> soundEffect, specialProperties |-> own.addr],
      heap |-> own.heap]
WeaponSetDamage(c, damage) == [c EXCEPT !.damage = damage]
WeaponSetCurrentCooldown(c, currentCooldown) ==
  [c EXCEPT !.currentCooldown = currentCooldown]
WeaponReduceCooldown(c, dt) == [c EXCEPT !.currentCooldown = Max(0, @ - dt)]
WeaponResetCooldown(c) == [c EXCEPT !.currentCooldown = c.cooldown]
WeaponCanFire(c) == c.currentCooldown <= 0
WeaponSetSpecialProperty(h, c, key, value) ==
  [obj |-> c,
   heap |-> HeapSet(h, c.specialProperties, MapSet(h[c.specialProperties], key, value))]
\* A clone that hands on the record of special properties itself.
WeaponCloneShared(h, c) ==
  Same(h, [c EXCEPT !.owner = Null, !.currentCooldown = 0])
WeaponClone(h, c) ==
  LET copy == Alloc(h, h[c.specialProperties])
  IN NewWeapon(copy.heap, c.weaponType, c.damage, c.cooldown, c.projectileSpeed,
               c.projectileLifetime, c.spread, c.projectileCount, c.texture,
               c.soundEffect, copy.addr)
WeaponMutations(h, c) ==
  {Same(h, WeaponSetDamage(c, v)) : v \in Vals}
    \cup {Same(h, WeaponSetCurrentCooldown(c, v)) : v \in Vals}
    \cup {Same(h, WeaponReduceCooldown(c, v)) : v \in Vals \ {0}}
    \cup {Same(h, WeaponResetCooldown(c))}
    \cup {WeaponSetSpecialProperty(h, c, k, v) : k \in SpecialKeys, v \in Vals}

\* ---- InputComponent
KeyCodes == {"Space"}
Buttons == {"button0"}
NewInput(h) ==
  LET keys == Alloc(h, <<>>)
      mouseButtons == Alloc(keys.heap, <<>>)
  IN [obj |-> [kind |-> "Input", owner |-> Null, keys |-> keys.addr,
               mouseX |-> 0, mouseY |-> 0, mouseButtons |-> mouseButtons.addr,
               touchActive |-> FALSE, touchX |-> 0, touchY |-> 0],
      heap |-> mouseButtons.heap]
handleKey(h, c, code, down) ==
  [obj |-> c, heap |-> HeapSet(h, c.keys, MapSet(h[c.keys], code, down))]
handleMouseMove(c, x, y) == [c EXCEPT !.mouseX = x, !.mouseY = y]
handleMouseButton(h, c, button, down) ==
  [obj |-> c, heap |-> HeapSet(h, c.mouseButtons, MapSet(h[c.mouseButtons], button, down))]
handleTouchStart(c, x, y) == [c EXCEPT !.touchActive = TRUE, !.touchX = x, !.touchY = y]
handleTouchEnd(c) == [c EXCEPT !.touchActive = FALSE]
isKeyDown(h, c, code) == MapHas(h[c.keys], code) /\ MapGet(h[c.keys], code)
InputClone(h, c) == NewInput(h)
InputMutations(h, c) ==
  {handleKey(h, c, k, b) : k \in KeyCodes, b \in BOOLEAN}
    \cup {handleMouseButton(h, c, k, b) : k \in Buttons, b \in BOOLEAN}
    \cup {Same(h, handleMouseMove(c, v, v)) : v \in Vals}
    \cup {Same(h, handleTouchStart(c, v, v)) : v \in Vals}
    \cup {Same(h, handleTouchEnd(c))}

\* ---- TimerComponent
TimerIds == {"t"}
Callbacks == {"cb"}
NewTimer(h) ==
  LET timers == Alloc(h, <<>>)
      callbacks == Alloc(timers.heap, <<>>)
      repeating == Alloc(callbacks.heap, <<>>)
      durations == Alloc(repeating.heap, <<>>)
  IN [obj |-> [kind |-> "Timer", owner |-> Null, timers |-> timers.addr,
               callbacks |-> callbacks.addr, repeating |-> repeating.addr,
               durations |-> durations.addr],
      heap |-> durations.heap]
\* An addTimer that makes every timer a repeating one.
addTimerRepeating(h, c, id, duration, callback, repeat) ==
  [obj |-> c,
   heap |-> [h EXCEPT ![c.timers] = MapSet(@, id, duration),
                      ![c.callbacks] = MapSet(@, id, callback),
                      ![c.repeating] = MapSet(@, id, TRUE),
                      ![c.durations] = MapSet(@, id, duration)]]
addTimer(h, c, id, duration, callback, repeat) ==
  [obj |-> c,
   heap |-> [h EXCEPT ![c.timers] = MapSet(@, id, duration),
                      ![c.callbacks] = MapSet(@, id, callback),
                      ![c.repeating] = MapSet(@, id, repeat),
                      ![c.durations] = MapSet(@, id, duration)]]
removeTimer(h, c, id) ==
  [obj |-> c,
   heap |-> [h EXCEPT ![c.timers] = MapDelete(@, id),
                      ![c.callbacks] = MapDelete(@, id),
                      ![c.repeating] = MapDelete(@, id),
                      ![c.durations] = MapDelete(@, id)]]
resetTimer(h, c, id) ==
  IF MapHas(h[c.durations], id)
    THEN [obj |-> c,
          heap |-> HeapSet(h, c.timers, MapSet(h[c.timers], id, MapGet(h[c.durations], id)))]
    ELSE Same(h, c)
pauseTimer(h, c, id) ==
  IF MapHas(h[c.timers], id) /\ MapGet(h[c.timers], id) > 0
    THEN [obj |-> c,
          heap |-> HeapSet(h, c.timers, MapSet(h[c.timers], id, -MapGet(h[c.timers], id)))]
    ELSE Same(h, c)
\* A resumeTimer that starts the timer again from its duration.
resumeTimerFromStart(h, c, id) ==
  IF MapHas(h[c.timers], id) /\ MapGet(h[c.timers], id) < 0
    THEN [obj |-> c,
          heap |-> HeapSet(h, c.timers, MapSet(h[c.timers], id, MapGet(h[c.durations], id)))]
    ELSE Same(h, c)
resumeTimer(h, c, id) ==
  IF MapHas(h[c.timers], id) /\ MapGet(h[c.timers], id) < 0
    THEN [obj |-> c,
          heap |-> HeapSet(h, c.timers, MapSet(h[c.timers], id, -MapGet(h[c.timers], id)))]
    ELSE Same(h, c)
hasTimer(h, c, id) == MapHas(h[c.timers], id)
\* update from the i-th entry of this.timers on; `fired` are the ids whose
\* callback has been called so far.  A callback calls nothing of the component.
RECURSIVE TimerUpdateFrom(_, _, _, _, _)
TimerUpdateFrom(h, c, i, dt, fired) ==
  IF i > Len(h[c.timers]) THEN [obj |-> c, heap |-> h, fired |-> fired]
  ELSE LET id == h[c.timers][i][1]
           time == h[c.timers][i][2]
       IN IF time <= 0 THEN TimerUpdateFrom(h, c, i + 1, dt, fired)
          ELSE IF time - dt <= 0
            THEN LET called == IF MapHas(h[c.callbacks], id)
                                 THEN Append(fired, id) ELSE fired
                 IN IF MapHas(h[c.repeating], id) /\ MapGet(h[c.repeating], id)
                      THEN TimerUpdateFrom(
                             HeapSet(h, c.timers,
                                     MapSet(h[c.timers], id,
                                            IF MapHas(h[c.durations], id)
                                              THEN MapGet(h[c.durations], id) ELSE 0)),
                             c, i + 1, dt, called)
                      ELSE TimerUpdateFrom(removeTimer(h, c, id).heap, c, i, dt, called)
          ELSE TimerUpdateFrom(HeapSet(h, c.timers, MapSet(h[c.timers], id, time - dt)),
                               c, i + 1, dt, fired)
TimerUpdate(h, c, dt) ==
  LET r == TimerUpdateFrom(h, c, 1, dt, <<>>) IN [obj |-> r.obj, heap |-> r.heap]
TimerClone(h, c) ==
  LET clone == NewTimer(h)
  IN [obj |-> clone.obj,
      heap |-> [clone.heap EXCEPT ![clone.obj.timers] = h[c.timers],
                                  ![clone.obj.callbacks] = h[c.callbacks],
                                  ![clone.obj.repeating] = h[c.repeating],
                                  ![clone.obj.durations] = h[c.durations]]]
TimerMutations(h, c) ==
  {addTimer(h, c, id, d, cb, b) :
     id \in TimerIds, d \in Vals \ {0}, cb \in Callbacks, b \in BOOLEAN}
    \cup {removeTimer(h, c, id) : id \in TimerIds}
    \cup {pauseTimer(h, c, id) : id \in TimerIds}
    \cup {resumeTimer(h, c, id) : id \in TimerIds}
    \cup {TimerUpdate(h, c, dt) : dt \in Vals \ {0}}

\* ---- every kind
ComponentKinds ==
  {"Transform", "Velocity", "Collider", "Weapon", "Health", "Input", "Timer", "Render"}
RefFields ==
  {"specialProperties", "keys", "mouseButtons", "timers", "callbacks", "repeating",
   "durations"}
\* What the getters of component c give: its fields, a Map or Record by its
\* entries, the owner apart.
Observable(h, c) ==
  [f \in DOMAIN c \ {"owner"} |-> IF f \in RefFields THEN h[c[f]] ELSE c[f]]
\* A newly constructed component of every kind.
NewComponent(kind) ==
  CASE kind = "Transform" -> Same(<<>>, NewTransform(0, 0, 0, 1, 1))
    [] kind = "Velocity" -> Same(<<>>, NewVelocity(0, 0, MaxVal, 0))
    [] kind = "Collider" ->
         Same(<<>>, NewCollider("RECTANGLE", MaxVal, MaxVal, MaxVal, 0, 0, FALSE, 1, AllBits))
    [] kind = "Weapon" ->
         NewWeapon(Alloc(<<>>, <<>>).heap, "default", MaxVal, MaxVal, MaxVal, MaxVal,
                   0, 1, "", NoSound, Alloc(<<>>, <<>>).addr)
    [] kind = "Health" -> Same(<<>>, NewHealth(MaxVal + 1, MaxVal))
    [] kind = "Input" -> NewInput(<<>>)
    [] kind = "Timer" -> NewTimer(<<>>)
    [] kind = "Render" -> Same(<<>>, NewRender(MaxVal, MaxVal, "#FFFFFF", 1))
Clone(h, c) ==
  CASE c.kind = "Transform" -> TransformClone(h, c)
    [] c.kind = "Velocity" -> VelocityClone(h, c)
    [] c.kind = "Collider" -> ColliderClone(h, c)
    [] c.kind = "Weapon" -> WeaponClone(h, c)
    [] c.kind = "Health" -> HealthClone(h, c)
    [] c.kind = "Input" -> InputClone(h, c)
    [] c.kind = "Timer" -> TimerClone(h, c)
    [] c.kind = "Render" -> RenderClone(h, c)
Mutations(h, c) ==
  CASE c.kind = "Transform" -> TransformMutations(h, c)
    [] c.kind = "Velocity" -> VelocityMutations(h, c)
    [] c.kind = "Collider" -> ColliderMutations(h, c)
    [] c.kind = "Weapon" -> WeaponMutations(h, c)
    [] c.kind = "Health" -> HealthMutations(h, c)
    [] c.kind = "Input" -> InputMutations(h, c)
    [] c.kind = "Timer" -> TimerMutations(h, c)
    [] c.kind = "Render" -> RenderMutations(h, c)

\* Component.setOwner, as Entity.addComponent calls it.
SetOwner(c, e) == [c EXCEPT !.owner = e]

\* ------------------------------------------------------------- Spec
\* The World's registry and its buffers.  The run starts with the World set up
\* as Game.initSystems and EntityFactory do it: the systems that call the World
\* from their update are registered, and the entity objects are built and
\* tagged ('enemy' the odd ones, 'player' the even ones) but not yet handed to
\* the World.  Outside code then calls addEntity, removeEntity,
\* add/removeEntityListener, clear and update between ticks; the systems call
\* addEntity and removeEntity from inside their update.
InitWorld ==
  /\ entities = <<>>
  /\ entitiesToAdd = <<>>
  /\ entitiesToRemove = <<>>
  /\ systems = <<"health", "spawn">>
  /\ entityListeners = <<>>
  /\ sysActive = [s \in SystemObjs |-> TRUE]
  /\ sysWorld = [s \in SystemObjs |-> s \in {"health", "spawn"}]
  /\ components = [e \in EntityObjs |-> [t \in TypeIds |-> NoComp]]
  /\ owner = [c \in CompObjs |-> Null]
  /\ tags = [e \in EntityObjs |-> IF e % 2 = 1 THEN {"enemy"} ELSE {"player"}]
  /\ entActive = [e \in EntityObjs |-> TRUE]
  /\ tpos = [c \in TransformObjs |-> <<0, 0>>]
  /\ collider = [c \in ColliderObjs |-> DefaultCollider]
  /\ velocity = [e \in EntityObjs |-> NoVelocity]
  /\ trs = [c \in TransformObjs |-> DefaultRS]
  /\ collisionPairs = [s \in CollisionObjs |-> <<>>]
  /\ collisionListeners = [s \in CollisionObjs |-> <<>>]
  /\ pc = "idle" /\ idx = 0 /\ lidx = 0
  /\ trace = <<>> /\ runLog = <<>> /\ adds0 = <<>> /\ rems0 = <<>> /\ reg0 = <<>>
  /\ addOrder = <<"health", "spawn">> /\ skipped = {}
  /\ events = <<>> /\ overlapNow = {} /\ vanished = {} /\ movedInto = {} /\ hookCalls = <<>>
  /\ dispatch = [registered |-> <<>>, delivered |-> <<>>, removed |-> {}]
  /\ LabIdle

WorldUpdate(s) ==
  CASE Kind(s) = "EnemySpawnSystem" -> EnemySpawnUpdate
    [] Kind(s) = "HealthSystem" -> HealthUpdate
    [] OTHER -> PassiveUpdate

CallAddEntity ==
  \E e \in EntityObjs :
    Len(entitiesToAdd) < MaxPending /\ Outside /\ AddEntity(e) /\ UNCHANGED histVars
CallRemoveEntity ==
  \E e \in EntityObjs : Outside /\ RemoveEntity(e) /\ UNCHANGED histVars
CallAddEntityListener ==
  \E l \in ListenerObjs :
    /\ l \notin Range(entityListeners)
    /\ Outside /\ AddEntityListener(l) /\ UNCHANGED histVars
CallRemoveEntityListener ==
  \E l \in ListenerObjs : Outside /\ RemoveEntityListener(l) /\ UNCHANGED histVars
CallClear == Outside /\ Clear /\ addOrder' = <<>> /\ skipped' = {}
Flush ==
  \/ FlushAddEntity \/ NotifyAdded \/ FlushAddDone
  \/ FlushRemoveEntity \/ NotifyRemoved \/ FlushRemoveDone

Next ==
  \/ CallAddEntity \/ CallRemoveEntity
  \/ CallAddEntityListener \/ CallRemoveEntityListener
  \/ CallClear
  \/ UpdateStart \/ Flush \/ RunSystem(WorldUpdate) \/ UpdateReturn

Spec == InitWorld /\ [][Next]_vars

\* ------------------------------------------------------------- SpecSched
\* The system list and the update loop.  Outside code calls addSystem (with an
\* instance that is not registered), removeSystem, setActive, clear and update
\* between ticks; the updates of the systems call nothing of the World.
SchedSystemObjs == {"spawn", "input", "collision", "collision2"}

SchedUpdate(s) ==
  IF Kind(s) = "CollisionSystem" THEN CollisionUpdate(s) ELSE PassiveUpdate

CallAddSystem ==
  \E s \in SchedSystemObjs :
    /\ s \notin Range(systems)
    /\ Outside /\ AddSystem(s)
    /\ addOrder' = Append(addOrder, s) /\ UNCHANGED skipped
CallRemoveSystem ==
  \E kind \in Kinds :
    /\ Outside /\ RemoveSystem(kind)
    /\ addOrder' = SelectSeq(addOrder, LAMBDA x : x \in Range(systems'))
    /\ skipped' = skipped \cap Range(systems')
CallSetActive ==
  \E s \in SchedSystemObjs, active \in BOOLEAN :
    Outside /\ SetActive(s, active) /\ UNCHANGED histVars

\* No entity is handed to this World, so the two flush loops of an update run
\* over nothing: of the flush only the steps that end the loops are enabled.
NextSched ==
  \/ CallAddSystem \/ CallRemoveSystem \/ CallSetActive \/ CallClear
  \/ UpdateStart \/ FlushAddDone \/ FlushRemoveDone
  \/ RunSystem(SchedUpdate) \/ UpdateReturn

SpecSched == Init /\ [][NextSched]_vars

\* ------------------------------------------------------------- claims (SpecSched)
IndexOf(s, x) == CHOOSE i \in 1..Len(s) : s[i] = x

\* C4: the system list is sorted by non-decreasing priority with systems of
\* equal priority in the order they were added, and an update runs the active
\* systems of the list in the order of the list.
C4_SystemsSortedAndRunInOrder ==
  /\ \A i, j \in 1..Len(systems) :
       i < j =>
         /\ getPriority(systems[i]) <= getPriority(systems[j])
         /\ getPriority(systems[i]) = getPriority(systems[j])
              => IndexOf(addOrder, systems[i]) < IndexOf(addOrder, systems[j])
  /\ pc = "done" => runLog = SelectSeq(systems, LAMBDA x : sysActive[x])

\* C4 witness: systems added with priorities 50, 5, 20 and then 20 again have
\* been run as 5, 20, the second 20, 50.
C4_Witness ==
  /\ pc = "done"
  /\ addOrder = <<"spawn", "input", "collision", "collision2">>
  /\ runLog = <<"input", "collision", "collision2", "spawn">>

\* C8: an update never invokes the update of a registered system that is
\* inactive, and invokes the update of every registered active system exactly
\* once, also of one that an earlier update passed over as inactive.
C8_InactiveSkippedActiveOnce ==
  /\ \A i \in 1..Len(runLog) : runLog[i] \in Range(systems) /\ sysActive[runLog[i]]
  /\ pc = "done" =>
       \A s \in Range(systems) : Count(runLog, s) = IF sysActive[s] THEN 1 ELSE 0

\* C8 witness: an update has returned that passed over one inactive system and
\* ran one that an earlier update had passed over.
C8_Witness ==
  /\ pc = "done"
  /\ \E s \in Range(systems) : ~sysActive[s] /\ Count(runLog, s) = 0
  /\ \E s \in skipped : sysActive[s] /\ Count(runLog, s) = 1

\* C13: every step that brings a system into the World calls its init() once
\* (so before any update of it, which only registered systems get), every step
\* by which a system leaves the World, removeSystem or clear, calls its
\* destroy() once, and no other init() or destroy() is called; a system that
\* is not in the World has a null world back-reference, and update only
\* invokes the update of systems that are in the World.
C13_SystemLifecycle ==
  [][/\ \A s \in SystemObjs :
          /\ Count(hookCalls', <<"init", s>>) =
               IF s \notin Range(systems) /\ s \in Range(systems') THEN 1 ELSE 0
          /\ Count(hookCalls', <<"destroy", s>>) =
               IF s \in Range(systems) /\ s \notin Range(systems') THEN 1 ELSE 0
          /\ Count(systems', s) <= 1
          /\ s \notin Range(systems') => ~sysWorld'[s]
     /\ Len(runLog') > Len(runLog) =>
          /\ runLog'[Len(runLog')] \in Range(systems)
          /\ sysWorld[runLog'[Len(runLog')]]
    ]_vars

\* C13 witness: removeSystem has just taken one of several registered systems
\* out of the World.
C13_Witness ==
  /\ hookCalls = <<<<"destroy", "input">>>>
  /\ "input" \notin Range(systems) /\ ~sysWorld["input"]
  /\ Len(systems) >= 2

\* ------------------------------------------------------------- SpecEntity
\* Entities and their components, outside any World: outside code calls
\* addComponent and removeComponent with any entity; as in the factories, a
\* component object is not handed to a second entity.
CallAddComponent ==
  \E e \in EntityObjs, c \in CompObjs :
    /\ owner[c] \in {Null, e}
    /\ Outside /\ AddComponent(e, c) /\ UNCHANGED histVars
CallRemoveComponent ==
  \E e \in EntityObjs, type \in TypeIds :
    Outside /\ RemoveComponent(e, type) /\ UNCHANGED histVars

NextEntity == CallAddComponent \/ CallRemoveComponent

SpecEntity == Init /\ [][NextEntity]_vars

\* ------------------------------------------------------------- claims (SpecEntity)
\* C9: every component whose owner is not null is the component its owner
\* holds under the component's type identifier.
C9_OwnerHoldsComponent ==
  \A c \in CompObjs :
    owner[c] # Null => getComponent(owner[c], getType(c)) = c

\* C10: an addComponent that replaces another component under the same type
\* identifier sets the owner of the new component to the entity and clears the
\* owner of the replaced one to null.
C10_ReplacedOwnerCleared ==
  [][\A e \in EntityObjs, c \in CompObjs :
       (AddComponent(e, c) /\ getComponent(e, getType(c)) \notin {NoComp, c})
         => /\ owner'[c] = e
            /\ owner'[getComponent(e, getType(c))] = Null]_vars

\* C11: an addComponent under a type identifier already in use replaces the
\* component held there: hasComponent stays true, getComponent returns the
\* new component, and getComponents holds exactly one component of that type
\* identifier.
C11_SecondComponentReplaces ==
  [][\A e \in EntityObjs, c \in CompObjs :
       (AddComponent(e, c) /\ hasComponent(e, getType(c)))
         => /\ hasComponent(e, getType(c))'
            /\ getComponent(e, getType(c))' = c
            /\ Cardinality({x \in getComponents(e)' : getType(x) = getType(c)}) = 1]_vars

\* C11 witness: an entity holds the second of two transforms attached to it;
\* the first was not removed in between (it still names the entity as owner).
C11_Witness ==
  /\ getComponent(1, "Transform") = <<"Transform", 2>>
  /\ owner[<<"Transform", 2>>] = 1
  /\ owner[<<"Transform", 1>>] = 1

\* C12: addComponent invokes init() of the attached component, once, and
\* removeComponent of a present type invokes destroy() of the detached
\* component, once.
C12_ComponentHooksInvoked ==
  [][/\ \A e \in EntityObjs, c \in CompObjs :
          AddComponent(e, c) => hookCalls' = <<<<"init", c>>>>
     /\ \A e \in EntityObjs, type \in TypeIds :
          (RemoveComponent(e, type) /\ hasComponent(e, type))
            => hookCalls' = <<<<"destroy", getComponent(e, type)>>>>]_vars

\* ------------------------------------------------------------- SpecColl
\* The collision test set-ups: new ColliderComponent(RECTANGLE, 50, 50),
\* new ColliderComponent(CIRCLE, 0, 0, 25) and
\* new ColliderComponent(RECTANGLE, 50, 50, 0, 0, 0, false, layer, mask).
RectCollider == [DefaultCollider EXCEPT !.width = 50, !.height = 50]
CircleCollider ==
  [DefaultCollider EXCEPT !.type = "CIRCLE", !.width = 0, !.height = 0, !.radius = 25]
LayeredCollider(layer, mask) ==
  [RectCollider EXCEPT !.radius = 0, !.layer = layer, !.mask = mask]

\* Where the tests put their entities: two places that overlap and one apart.
Positions == {<<100, 100>>, <<120, 120>>, <<200, 200>>}

\* transform.x = x; transform.y = y (or setPosition(x, y)).
SetPosition(t, p) ==
  /\ hookCalls' = <<>>
  /\ tpos' = [tpos EXCEPT ![t] = p]
  /\ UNCHANGED <<worldVars, sysVars, collVars, labVars, components, owner, tags, entActive, collider, velocity, trs>>

\* Entity.setActive.
SetEntityActive(e, active) ==
  /\ hookCalls' = <<>>
  /\ entActive' = [entActive EXCEPT ![e] = active]
  /\ UNCHANGED <<worldVars, sysVars, collVars, labVars, components, owner, tags, tpos, collider, velocity, trs>>

\* Every entity object is built with a transform at position `at` and with the
\* collider `cfg[e]`, and one CollisionSystem is registered.
InitBuilt(cfg, at) ==
  /\ entities = <<>>
  /\ entitiesToRemove = <<>>
  /\ systems = <<"collision">>
  /\ entityListeners = <<>>
  /\ sysActive = [s \in SystemObjs |-> TRUE]
  /\ sysWorld = [s \in SystemObjs |-> s = "collision"]
  /\ components = [e \in EntityObjs |->
                     [t \in TypeIds |-> IF t = "Transform" THEN <<"Transform", e>>
                                                           ELSE <<"Collider", e>>]]
  /\ owner = [c \in CompObjs |-> c[2]]
  /\ tags = [e \in EntityObjs |-> {}]
  /\ entActive = [e \in EntityObjs |-> TRUE]
  /\ tpos = [c \in TransformObjs |-> at]
  /\ collider = [c \in ColliderObjs |-> cfg[c[2]]]
  /\ velocity = [e \in EntityObjs |-> NoVelocity]
  /\ trs = [c \in TransformObjs |-> DefaultRS]
  /\ collisionPairs = [s \in CollisionObjs |-> <<>>]
  /\ collisionListeners = [s \in CollisionObjs |-> <<>>]
  /\ pc = "idle" /\ idx = 0 /\ lidx = 0
  /\ trace = <<>> /\ runLog = <<>> /\ adds0 = <<>> /\ rems0 = <<>> /\ reg0 = <<>>
  /\ addOrder = <<"collision">> /\ skipped = {}
  /\ events = <<>> /\ overlapNow = {} /\ vanished = {} /\ movedInto = {} /\ hookCalls = <<>>
  /\ dispatch = [registered |-> <<>>, delivered |-> <<>>, removed |-> {}]
  /\ LabIdle

\* The entities of the ENTER/STAY/EXIT tests: rectangles of 50 by 50, built
\* but not yet handed to the World.
InitColl ==
  /\ InitBuilt([e \in EntityObjs |-> RectCollider], <<100, 100>>)
  /\ entitiesToAdd = <<>>

CollUpdate(s) ==
  IF Kind(s) = "CollisionSystem" THEN CollisionUpdate(s) ELSE PassiveUpdate

\* Outside code moves every entity but the first among the positions.
CallSetPosition ==
  \E t \in TransformObjs \ {<<"Transform", 1>>}, p \in Positions :
    Outside /\ SetPosition(t, p) /\ UNCHANGED histVars
CallSetEntityActive ==
  \E e \in EntityObjs, active \in BOOLEAN :
    Outside /\ SetEntityActive(e, active) /\ UNCHANGED histVars
\* addEntity with an entity that is neither registered nor pending.
CallAddAbsentEntity ==
  \E e \in EntityObjs :
    /\ e \notin Range(entities) \cup Range(entitiesToAdd)
    /\ Outside /\ AddEntity(e) /\ UNCHANGED histVars
\* removeEntity with the id of a registered entity.
CallRemovePresentEntity ==
  \E e \in Range(entities) : Outside /\ RemoveEntity(e) /\ UNCHANGED histVars

\* No lifecycle listener is registered, so the flush notifies nobody.
NextColl ==
  \/ CallAddAbsentEntity \/ CallRemovePresentEntity
  \/ CallSetPosition \/ CallSetEntityActive
  \/ UpdateStart \/ FlushAddEntity \/ FlushAddDone \/ FlushRemoveEntity \/ FlushRemoveDone
  \/ RunSystem(CollUpdate) \/ UpdateReturn

SpecColl == InitColl /\ [][NextColl]_vars

\* ------------------------------------------------------------- SpecLayers
\* The layer test set-up: every entity is built with one of these colliders.
LayerColliders ==
  {RectCollider, CircleCollider, LayeredCollider(1, 2), LayeredCollider(4, 8),
   LayeredCollider(2, 1)}

\* The entities are built and handed to addEntity in the order of their ids.
InitLayers ==
  /\ \E cfg \in [EntityObjs -> LayerColliders] : InitBuilt(cfg, <<100, 100>>)
  /\ entitiesToAdd = [i \in 1..NumEntities |-> i]

NextLayers ==
  \/ CallSetPosition
  \/ UpdateStart \/ FlushAddEntity \/ FlushAddDone \/ FlushRemoveDone
  \/ RunSystem(CollUpdate) \/ UpdateReturn

SpecLayers == InitLayers /\ [][NextLayers]_vars

\* ------------------------------------------------------------- SpecFactory
\* The colliders EntityFactory gives to the entities it creates.
PlayerCollider ==
  [type |-> "RECTANGLE", width |-> 40, height |-> 40, radius |-> 0,
   offsetX |-> 0, offsetY |-> 0, layer |-> 1, mask |-> 2]
EnemyCollider ==
  [type |-> "RECTANGLE", width |-> 30, height |-> 30, radius |-> 0,
   offsetX |-> 0, offsetY |-> 0, layer |-> 2, mask |-> 1]
ProjectileCollider(isPlayerBullet) ==
  [type |-> "RECTANGLE", width |-> 10, height |-> 20, radius |-> 0,
   offsetX |-> 0, offsetY |-> 0,
   layer |-> IF isPlayerBullet THEN 4 ELSE 8,
   mask |-> IF isPlayerBullet THEN 2 ELSE 1]
ItemCollider ==
  [type |-> "CIRCLE", width |-> 0, height |-> 0, radius |-> 10,
   offsetX |-> 0, offsetY |-> 0, layer |-> 16, mask |-> 1]
FactoryColliders ==
  {PlayerCollider, EnemyCollider, ProjectileCollider(TRUE), ProjectileCollider(FALSE),
   ItemCollider}

\* Every entity is created by one of createPlayer, createEnemy,
\* createProjectile and createItem at the same place, and handed to addEntity
\* in the order of the ids.
InitFactory ==
  /\ \E cfg \in [EntityObjs -> FactoryColliders] : InitBuilt(cfg, <<100, 100>>)
  /\ entitiesToAdd = [i \in 1..NumEntities |-> i]

SpecFactory == InitFactory /\ [][NextLayers]_vars

\* The pairs of kinds the game is about: enemy and player, player projectile
\* and enemy, enemy projectile and player, item and player.
GamePair(a, b) ==
  {collider[<<"Collider", a>>], collider[<<"Collider", b>>]} \in
    {{EnemyCollider, PlayerCollider}, {ProjectileCollider(TRUE), EnemyCollider},
     {ProjectileCollider(FALSE), PlayerCollider}, {ItemCollider, PlayerCollider}}

\* ------------------------------------------------------------- claims (SpecFactory)
\* C27: with the layers and masks of EntityFactory, a player projectile and
\* an enemy, an enemy projectile and the player, an item and the player, and
\* an enemy and the player each pass the layer test when they overlap, and the
\* CollisionSystem.update at which they start to overlap dispatches one ENTER.
C27_GamePairsEnter ==
  [][runLog' = Append(runLog, "collision") =>
       \A a \in Range(getEntities), b \in Range(getEntities) :
         (/\ a < b /\ GamePair(a, b) /\ checkCollision(a, b)
          /\ <<a, Colon, b>> \notin Range(collisionPairs["collision"]))
           => Count(events', <<"ENTER", a, b>>) = 1]_vars

\* ------------------------------------------------------------- SpecGame
\* The eight systems the Game constructor creates, in the order initSystems
\* hands them to addSystem.
GameSystems ==
  <<"timer", "input", "movement", "weapon", "collision", "health", "spawn", "render">>

\* The addSystem calls of initSystems from the i-th on.
RECURSIVE AddSystems(_, _)
AddSystems(list, i) ==
  IF i > Len(GameSystems) THEN list
  ELSE AddSystems(InsertAt(list, InsertIndex(list, GameSystems[i]), GameSystems[i]), i + 1)

\* World.systems after initSystems.
initSystems == AddSystems(<<>>, 1)

\* A Game after its constructor: the systems are registered, the world has no
\* entity, the loop is not running.  Every entity object is a player as
\* createPlayer builds it, not yet handed to the World.
InitGame ==
  /\ entities = <<>> /\ entitiesToAdd = <<>> /\ entitiesToRemove = <<>>
  /\ systems = initSystems
  /\ entityListeners = <<>>
  /\ sysActive = [s \in SystemObjs \cup Range(GameSystems) |-> TRUE]
  /\ sysWorld = [s \in SystemObjs \cup Range(GameSystems) |-> s \in Range(GameSystems)]
  /\ components = [e \in EntityObjs |->
                     [t \in TypeIds |-> IF t = "Transform" THEN <<"Transform", e>>
                                                           ELSE <<"Collider", e>>]]
  /\ owner = [c \in CompObjs |-> c[2]]
  /\ tags = [e \in EntityObjs |-> {"player"}]
  /\ entActive = [e \in EntityObjs |-> TRUE]
  /\ tpos = [c \in TransformObjs |-> <<100, 100>>]
  /\ collider = [c \in ColliderObjs |-> PlayerCollider]
  /\ velocity = [e \in EntityObjs |-> NoVelocity]
  /\ trs = [c \in TransformObjs |-> DefaultRS]
  /\ collisionPairs = [s \in CollisionObjs |-> <<>>]
  /\ collisionListeners = [s \in CollisionObjs |-> <<>>]
  /\ pc = "idle" /\ idx = 0 /\ lidx = 0
  /\ trace = <<>> /\ runLog = <<>> /\ adds0 = <<>> /\ rems0 = <<>> /\ reg0 = <<>>
  /\ addOrder = GameSystems /\ skipped = {}
  /\ events = <<>> /\ overlapNow = {} /\ vanished = {} /\ movedInto = {} /\ hookCalls = <<>>
  /\ dispatch = [registered |-> <<>>, delivered |-> <<>>, removed |-> {}]
  /\ LabIdle

\* The entity objects the World does not hold: createPlayer gives a new one.
NewEntities == EntityObjs \ (Range(entities) \cup Range(entitiesToAdd))
NewEntity(free) == CHOOSE e \in free : \A other \in free : e <= other

\* Game.start: world.clear(), then respawnPlayer() hands a new player to
\* addEntity.
GameStart ==
  IF isRunning THEN hookCalls' = <<>> /\ UNCHANGED <<progVars>>
  ELSE /\ isRunning' = TRUE
       /\ lastOp' = <<"start">>
       /\ entities' = <<>>
       /\ entitiesToRemove' = <<>>
       /\ hookCalls' = [i \in 1..Len(systems) |-> <<"destroy", systems[i]>>]
       /\ sysWorld' = [s \in DOMAIN sysWorld |->
                         IF s \in Range(systems) THEN FALSE ELSE sysWorld[s]]
       /\ systems' = <<>>
       /\ entitiesToAdd' = <<NewEntity(EntityObjs)>>
       /\ UNCHANGED <<entityListeners, sysActive, entVars, collVars, c1, c2, heap,
                      configs, configChangeListeners, load, otherVars>>

\* Game.pause.
GamePause ==
  /\ isRunning' = FALSE
  /\ lastOp' = <<"pause">>
  /\ hookCalls' = <<>>
  /\ UNCHANGED <<worldVars, sysVars, entVars, collVars, c1, c2, heap,
                 configs, configChangeListeners, load, otherVars>>

\* Game.resume.
GameResume ==
  IF isRunning THEN hookCalls' = <<>> /\ UNCHANGED <<progVars>>
  ELSE /\ isRunning' = TRUE
       /\ lastOp' = <<"resume">>
       /\ hookCalls' = <<>>
       /\ UNCHANGED <<worldVars, sysVars, entVars, collVars, c1, c2, heap,
                      configs, configChangeListeners, load, otherVars>>

\* Game.reset: removeEntity for every registered entity, then respawnPlayer().
GameReset ==
  /\ NewEntities # {}
  /\ entitiesToRemove' =
       entitiesToRemove \o SelectSeq(entities, LAMBDA e : e \notin Range(entitiesToRemove))
  /\ entitiesToAdd' = Append(entitiesToAdd, NewEntity(NewEntities))
  /\ lastOp' = <<"reset">>
  /\ hookCalls' = <<>>
  /\ UNCHANGED <<entities, systems, entityListeners, sysVars, entVars, collVars,
                 c1, c2, heap, configs, configChangeListeners, load, isRunning,
                 otherVars>>

\* The page calls start, pause, resume and reset between two frames.
CallGameStart == Outside /\ GameStart /\ UNCHANGED histVars
CallGamePause == Outside /\ GamePause /\ UNCHANGED histVars
CallGameResume == Outside /\ GameResume /\ UNCHANGED histVars
CallGameReset == Outside /\ GameReset /\ UNCHANGED histVars

\* Game.gameLoop, called for a frame: world.update when the game is running.
\* While isRunning holds a frame is requested: start and resume request one
\* and every gameLoop that updates requests the next.
GameLoop == isRunning /\ UpdateStart

NextGame ==
  \/ CallGameStart \/ CallGamePause \/ CallGameResume \/ CallGameReset
  \/ GameLoop \/ FlushAddEntity \/ FlushAddDone \/ FlushRemoveEntity \/ FlushRemoveDone
  \/ RunSystem(CollUpdate) \/ UpdateReturn

SpecGame == InitGame /\ [][NextGame]_vars

\* ------------------------------------------------------------- claims (SpecGame)
\* C26: after Game.start() the eight systems the constructor registered are
\* still registered, and the World.update of a tick runs all of them.
C26_SystemsSurviveStart ==
  lastOp = <<"start">> =>
    /\ Range(systems) = Range(GameSystems)
    /\ pc = "done" => Range(runLog) = Range(GameSystems)

\* C28: initSystems calls addSystem in the order Timer, Input, Movement,
\* Weapon, Collision, Health, EnemySpawn, Render; the World holds the systems
\* in the order of their priorities, Input (5), Movement (10), Timer (15),
\* Collision (20), Weapon (30), Health (40), EnemySpawn (50), Render (100), and
\* an update while they are registered runs them in that order.
C28_PriorityOrder ==
  /\ initSystems =
       <<"input", "movement", "timer", "collision", "weapon", "health", "spawn", "render">>
  /\ systems # <<>> => systems = initSystems
  /\ (pc = "done" /\ systems # <<>>) => runLog = initSystems

\* C28 witness: a game resumed without start has run an update with all
\* eight systems.
C28_Witness ==
  /\ pc = "done" /\ isRunning
  /\ runLog = <<"input", "movement", "timer", "collision", "weapon", "health", "spawn", "render">>

\* ------------------------------------------------------------- SpecShapes
\* The shape test set-up: every entity is a 50 by 50 rectangle or a circle of
\* radius 25 on the default layer, handed to addEntity in the order of the ids.
ShapeColliders == {RectCollider, CircleCollider}

\* Places that make the shapes overlap, only touch (150 and 175 for a shape
\* at 100, 125 for a rectangle next to a circle at 100) or lie apart.
ShapePositions ==
  {<<100, 100>>, <<120, 120>>, <<125, 100>>, <<130, 100>>, <<140, 100>>,
   <<150, 100>>, <<175, 100>>, <<200, 200>>}

InitShapes ==
  /\ \E cfg \in [EntityObjs -> ShapeColliders] : InitBuilt(cfg, <<100, 100>>)
  /\ entitiesToAdd = [i \in 1..NumEntities |-> i]

\* Outside code puts the second entity at any of the places.
CallPlace ==
  \E p \in ShapePositions :
    Outside /\ SetPosition(<<"Transform", 2>>, p) /\ UNCHANGED histVars

NextShapes ==
  \/ CallPlace
  \/ UpdateStart \/ FlushAddEntity \/ FlushAddDone \/ FlushRemoveDone
  \/ RunSystem(CollUpdate) \/ UpdateReturn

SpecShapes == InitShapes /\ [][NextShapes]_vars

\* ------------------------------------------------------------- SpecTurn
\* The shape set-up, with outside code that places the second entity where it
\* overlaps the first, touches it or lies apart, and turns and scales the
\* first entity.
Rotations == {0, 90}
Scales == {1, 2}
TurnPositions == {<<120, 120>>, <<125, 100>>, <<150, 100>>, <<200, 200>>}

\* TransformComponent.setRotation of transform object t.
SetRotation(t, rotation) ==
  /\ hookCalls' = <<>>
  /\ trs' = [trs EXCEPT ![t].rotation = rotation]
  /\ UNCHANGED <<worldVars, sysVars, collVars, labVars, components, owner, tags,
                 entActive, tpos, collider, velocity>>

\* TransformComponent.setScale of transform object t.
SetScale(t, scaleX, scaleY) ==
  /\ hookCalls' = <<>>
  /\ trs' = [trs EXCEPT ![t].scaleX = scaleX, ![t].scaleY = scaleY]
  /\ UNCHANGED <<worldVars, sysVars, collVars, labVars, components, owner, tags,
                 entActive, tpos, collider, velocity>>

CallSetRotation ==
  \E rotation \in Rotations :
    Outside /\ SetRotation(<<"Transform", 1>>, rotation) /\ UNCHANGED histVars
CallSetScale ==
  \E scaleX \in Scales, scaleY \in Scales :
    Outside /\ SetScale(<<"Transform", 1>>, scaleX, scaleY) /\ UNCHANGED histVars
CallTurnPlace ==
  \E p \in TurnPositions :
    Outside /\ SetPosition(<<"Transform", 2>>, p) /\ UNCHANGED histVars

NextTurn ==
  \/ CallTurnPlace \/ CallSetRotation \/ CallSetScale
  \/ UpdateStart \/ FlushAddEntity \/ FlushAddDone \/ FlushRemoveDone
  \/ RunSystem(CollUpdate) \/ UpdateReturn

SpecTurn == InitShapes /\ [][NextTurn]_vars

\* The events a CollisionSystem.update dispatches when it is called as things
\* stand.
EventsOfUpdate ==
  processCollisionEvents("collision", bruteForceCollisionDetection(Collidable, 1, 2, <<>>))

\* ------------------------------------------------------------- claims (SpecTurn)
\* C23: collision results do not depend on the rotation and the scale of a
\* transform: a change of rotation, scaleX or scaleY does not change the events
\* the next CollisionSystem.update dispatches.
C23_RotationScaleIgnored ==
  [][trs' # trs => EventsOfUpdate' = EventsOfUpdate]_vars

\* C23 witness: the first rectangle is scaled by two and turned, the second
\* touches its unscaled right edge, and an update has dispatched nothing.
C23_Witness ==
  /\ pc = "done" /\ runLog = <<"collision">>
  /\ {1, 2} \subseteq Range(getEntities)
  /\ collider[<<"Collider", 1>>] = RectCollider /\ collider[<<"Collider", 2>>] = RectCollider
  /\ trs[<<"Transform", 1>>] = [rotation |-> 90, scaleX |-> 2, scaleY |-> 2]
  /\ tpos[<<"Transform", 2>>] = <<150, 100>>
  /\ events = <<>>

\* ------------------------------------------------------------- claims (SpecShapes)
\* The open intervals (a1, a2) and (b1, b2) of integer ends have a point in
\* common: then they have one that is a multiple of one half.
OpenIntervalsMeet(a1, a2, b1, b2) ==
  \E k \in (2 * a1 + 1)..(2 * a2 - 1) : 2 * b1 < k /\ k < 2 * b2

Clamp(v, lo, hi) == IF v < lo THEN lo ELSE IF v > hi THEN hi ELSE v

\* Strict overlap of the shapes of entities a and b, from their geometry.
StrictOverlap(a, b) ==
  LET ca == collider[<<"Collider", a>>]
      cb == collider[<<"Collider", b>>]
      pa == tpos[<<"Transform", a>>]
      pb == tpos[<<"Transform", b>>]
      CircleRect(c, pc0, r, pr) ==
        LET dx == Clamp(pc0[1], pr[1], pr[1] + r.width) - pc0[1]
            dy == Clamp(pc0[2], pr[2], pr[2] + r.height) - pc0[2]
        IN dx * dx + dy * dy < c.radius * c.radius
  IN CASE ca.type = "RECTANGLE" /\ cb.type = "RECTANGLE" ->
            /\ OpenIntervalsMeet(pa[1], pa[1] + ca.width, pb[1], pb[1] + cb.width)
            /\ OpenIntervalsMeet(pa[2], pa[2] + ca.height, pb[2], pb[2] + cb.height)
       [] ca.type = "CIRCLE" /\ cb.type = "CIRCLE" ->
            (pb[1] - pa[1]) * (pb[1] - pa[1]) + (pb[2] - pa[2]) * (pb[2] - pa[2])
              < (ca.radius + cb.radius) * (ca.radius + cb.radius)
       [] ca.type = "CIRCLE" /\ cb.type = "RECTANGLE" -> CircleRect(ca, pa, cb, pb)
       [] ca.type = "RECTANGLE" /\ cb.type = "CIRCLE" -> CircleRect(cb, pb, ca, pa)

EnemySpeed == 20
EnemyVelocities == {<<0, EnemySpeed>>, <<0, -EnemySpeed>>}
EnemyStarts == {<<100, 0>>, <<100, canvasHeight>>}
MoveSystemObjs == {"movement", "collision"}

InitMove ==
  /\ entities = <<>>
  /\ entitiesToAdd = [i \in 1..NumEntities |-> i]
  /\ entitiesToRemove = <<>>
  /\ systems = <<>>
  /\ entityListeners = <<>>
  /\ sysActive = [s \in SystemObjs |-> TRUE]
  /\ sysWorld = [s \in SystemObjs |-> FALSE]
  /\ components = [e \in EntityObjs |->
                     [t \in TypeIds |-> IF t = "Transform" THEN <<"Transform", e>>
                                                           ELSE <<"Collider", e>>]]
  /\ owner = [c \in CompObjs |-> c[2]]
  /\ tags = [e \in EntityObjs |-> {}]
  /\ entActive = [e \in EntityObjs |-> TRUE]
  /\ \E at \in [EntityObjs \ {1} -> EnemyStarts] :
       tpos = [c \in TransformObjs |-> IF c[2] = 1 THEN <<100, 100>> ELSE at[c[2]]]
  /\ collider = [c \in ColliderObjs |-> RectCollider]
  /\ \E v \in [EntityObjs \ {1} -> EnemyVelocities] :
       velocity = [e \in EntityObjs |-> IF e = 1 THEN <<0, 0>> ELSE v[e]]
  /\ trs = [c \in TransformObjs |-> DefaultRS]
  /\ collisionPairs = [s \in CollisionObjs |-> <<>>]
  /\ collisionListeners = [s \in CollisionObjs |-> <<>>]
  /\ pc = "idle" /\ idx = 0 /\ lidx = 0
  /\ trace = <<>> /\ runLog = <<>> /\ adds0 = <<>> /\ rems0 = <<>> /\ reg0 = <<>>
  /\ addOrder = <<>> /\ skipped = {}
  /\ events = <<>> /\ overlapNow = {} /\ vanished = {} /\ movedInto = {} /\ hookCalls = <<>>
  /\ dispatch = [registered |-> <<>>, delivered |-> <<>>, removed |-> {}]
  /\ LabIdle

\* VelocityComponent.setVelocity with the speed cap not reached.
SetVelocity(e, v) ==
  /\ hookCalls' = <<>>
  /\ velocity' = [velocity EXCEPT ![e] = v]
  /\ UNCHANGED <<worldVars, sysVars, collVars, labVars, components, owner, tags, entActive,
                 tpos, collider, trs>>

MoveUpdate(s) ==
  IF Kind(s) = "MovementSystem" THEN MovementUpdate(s)
  ELSE IF Kind(s) = "CollisionSystem" THEN CollisionUpdate(s)
  ELSE PassiveUpdate

CallAddMoveSystem ==
  \E s \in MoveSystemObjs :
    /\ s \notin Range(systems)
    /\ Outside /\ AddSystem(s)
    /\ addOrder' = Append(addOrder, s) /\ UNCHANGED skipped
CallSetVelocity ==
  \E e \in EntityObjs \ {1}, v \in EnemyVelocities :
    Outside /\ SetVelocity(e, v) /\ UNCHANGED histVars

NextMove ==
  \/ CallAddMoveSystem \/ CallSetVelocity
  \/ UpdateStart \/ FlushAddEntity \/ FlushAddDone \/ FlushRemoveDone
  \/ RunSystem(MoveUpdate) \/ UpdateReturn

SpecMove == InitMove /\ [][NextMove]_vars

\* ------------------------------------------------------------- claims (SpecMove)
\* C19: when the MovementSystem (priority 10) and the CollisionSystem
\* (priority 20) both run in a World.update and the movement brings a pair of
\* entities from apart to overlapping, the CollisionSystem dispatches ENTER for
\* that pair in that same World.update.
C19_EnterInSameUpdate ==
  (pc = "done" /\ {"movement", "collision"} \subseteq Range(runLog)) =>
    \A pair \in movedInto :
      \E k \in 1..Len(events) :
        events[k][1] = "ENTER" /\ {events[k][2], events[k][3]} = pair

\* C19 witness: both entities were in the registry before the update, apart;
\* its MovementSystem moved the enemy onto the player and its CollisionSystem
\* dispatched the ENTER.
C19_Witness ==
  /\ pc = "done" /\ runLog = <<"movement", "collision">>
  /\ {1, 2} \subseteq Range(reg0)
  /\ movedInto = {{1, 2}}
  /\ events = <<<<"ENTER", 1, 2>>>>

\* ------------------------------------------------------------- SpecQuiet
\* Calls whose target may be absent.  Every lifecycle listener is registered
\* from the start.  Outside code calls addEntity and removeEntity with any
\* entity or id, adds and removes the first entity's own components and its
\* tags, registers the InputSystem, calls removeSystem with any kind, and
\* calls update; the update of the InputSystem calls nothing of the World.
InitQuiet ==
  /\ entities = <<>>
  /\ entitiesToAdd = <<>>
  /\ entitiesToRemove = <<>>
  /\ systems = <<>>
  /\ entityListeners = [i \in 1..NumListeners |-> i]
  /\ sysActive = [s \in SystemObjs |-> TRUE]
  /\ sysWorld = [s \in SystemObjs |-> FALSE]
  /\ components = [e \in EntityObjs |-> [t \in TypeIds |-> NoComp]]
  /\ owner = [c \in CompObjs |-> Null]
  /\ tags = [e \in EntityObjs |-> {}]
  /\ entActive = [e \in EntityObjs |-> TRUE]
  /\ tpos = [c \in TransformObjs |-> <<0, 0>>]
  /\ collider = [c \in ColliderObjs |-> DefaultCollider]
  /\ velocity = [e \in EntityObjs |-> NoVelocity]
  /\ trs = [c \in TransformObjs |-> DefaultRS]
  /\ collisionPairs = [s \in CollisionObjs |-> <<>>]
  /\ collisionListeners = [s \in CollisionObjs |-> <<>>]
  /\ pc = "idle" /\ idx = 0 /\ lidx = 0
  /\ trace = <<>> /\ runLog = <<>> /\ adds0 = <<>> /\ rems0 = <<>> /\ reg0 = <<>>
  /\ addOrder = <<>> /\ skipped = {}
  /\ events = <<>> /\ overlapNow = {} /\ vanished = {} /\ movedInto = {} /\ hookCalls = <<>>
  /\ dispatch = [registered |-> <<>>, delivered |-> <<>>, removed |-> {}]
  /\ LabIdle

QuietUpdate(s) == PassiveUpdate

CallAddOwnComponent ==
  \E type \in TypeIds : Outside /\ AddComponent(1, <<type, 1>>) /\ UNCHANGED histVars
CallRemoveOwnComponent ==
  \E type \in TypeIds : Outside /\ RemoveComponent(1, type) /\ UNCHANGED histVars
CallAddTag ==
  \E tag \in Tags : Outside /\ AddTag(1, tag) /\ UNCHANGED histVars
CallRemoveTag ==
  \E tag \in Tags : Outside /\ RemoveTag(1, tag) /\ UNCHANGED histVars
CallAddInputSystem ==
  /\ "input" \notin Range(systems)
  /\ Outside /\ AddSystem("input")
  /\ addOrder' = Append(addOrder, "input") /\ UNCHANGED skipped

NextQuiet ==
  \/ CallAddEntity \/ CallRemoveEntity
  \/ CallAddOwnComponent \/ CallRemoveOwnComponent \/ CallAddTag \/ CallRemoveTag
  \/ CallAddInputSystem \/ CallRemoveSystem
  \/ UpdateStart \/ Flush \/ RunSystem(QuietUpdate) \/ UpdateReturn

SpecQuiet == InitQuiet /\ [][NextQuiet]_vars

\* ------------------------------------------------------------- SpecClone
\* One component object c1 of any kind, newly constructed and either detached
\* or attached to an entity.  Outside code calls its setters and handlers,
\* takes one clone c2 of it, and then goes on calling the setters and
\* handlers of both.
InitClone ==
  /\ entities = <<>> /\ entitiesToAdd = <<>> /\ entitiesToRemove = <<>>
  /\ systems = <<>> /\ entityListeners = <<>>
  /\ sysActive = [s \in SystemObjs |-> TRUE]
  /\ sysWorld = [s \in SystemObjs |-> FALSE]
  /\ components = [e \in EntityObjs |-> [t \in TypeIds |-> NoComp]]
  /\ owner = [c \in CompObjs |-> Null]
  /\ tags = [e \in EntityObjs |-> {}]
  /\ entActive = [e \in EntityObjs |-> TRUE]
  /\ tpos = [c \in TransformObjs |-> <<0, 0>>]
  /\ collider = [c \in ColliderObjs |-> DefaultCollider]
  /\ velocity = [e \in EntityObjs |-> NoVelocity]
  /\ trs = [c \in TransformObjs |-> DefaultRS]
  /\ collisionPairs = [s \in CollisionObjs |-> <<>>]
  /\ collisionListeners = [s \in CollisionObjs |-> <<>>]
  /\ pc = "idle" /\ idx = 0 /\ lidx = 0
  /\ trace = <<>> /\ runLog = <<>> /\ adds0 = <<>> /\ rems0 = <<>> /\ reg0 = <<>>
  /\ addOrder = <<>> /\ skipped = {}
  /\ events = <<>> /\ overlapNow = {} /\ vanished = {} /\ movedInto = {} /\ hookCalls = <<>>
  /\ dispatch = [registered |-> <<>>, delivered |-> <<>>, removed |-> {}]
  /\ \E kind \in ComponentKinds, e \in {Null, 1} :
       /\ c1 = SetOwner(NewComponent(kind).obj, e)
       /\ heap = NewComponent(kind).heap
  /\ c2 = NoObj /\ lastOp = <<"none">>
  /\ OthersIdle
  /\ configs = [k \in ConfigKinds |-> <<>>]
  /\ configChangeListeners = <<>>
  /\ load = IdleLoad
  /\ isRunning = FALSE

\* Nothing but the two components changes.
ComponentsOnly ==
  UNCHANGED <<worldVars, sysVars, entVars, collVars, ctlVars, ghostVars, histVars,
              collGhost, hookCalls, configs, configChangeListeners, load, isRunning,
                 otherVars>>

CallMutateOriginal ==
  \E r \in Mutations(heap, c1) :
    /\ c1' = r.obj /\ heap' = r.heap /\ lastOp' = <<"mutate", "c1">>
    /\ UNCHANGED c2 /\ ComponentsOnly
CallMutateClone ==
  /\ c2.kind # "none"
  /\ \E r \in Mutations(heap, c2) :
       /\ c2' = r.obj /\ heap' = r.heap /\ lastOp' = <<"mutate", "c2">>
       /\ UNCHANGED c1 /\ ComponentsOnly
CallClone ==
  /\ c2.kind = "none"
  /\ c2' = Clone(heap, c1).obj /\ heap' = Clone(heap, c1).heap
  /\ lastOp' = <<"clone">>
  /\ UNCHANGED c1 /\ ComponentsOnly

NextClone == CallMutateOriginal \/ CallMutateClone \/ CallClone

SpecClone == InitClone /\ [][NextClone]_vars

\* ------------------------------------------------------------- claims (SpecClone)
\* C21: clone() of a component of any kind returns a detached component
\* (owner null) whose observable state equals the original's at the time of
\* the call, state changed after construction included.
C21_CloneEqualsOriginal ==
  lastOp = <<"clone">> =>
    /\ c2.owner = Null
    /\ Observable(heap, c2) = Observable(heap, c1)

\* C22: after c2 = c1.clone(), no setter, handler, timer call or
\* special-property write on c1 changes what is observable through c2, and
\* none on c2 changes what is observable through c1.
C22_CloneIndependent ==
  [][/\ lastOp' = <<"mutate", "c1">> => Observable(heap', c2') = Observable(heap, c2)
     /\ lastOp' = <<"mutate", "c2">> => Observable(heap', c1') = Observable(heap, c1)
    ]_vars

\* C22 witness: a special property has been written on the original of a
\* cloned weapon, and the clone does not have it.
C22_Witness ==
  /\ lastOp = <<"mutate", "c1">>
  /\ c2.kind = "Weapon"
  /\ MapHas(heap[c1.specialProperties], "piercing")
  /\ ~MapHas(heap[c2.specialProperties], "piercing")

\* ------------------------------------------------------------- ConfigLoader
\* The JSON texts handed to the loaders.
JsonTexts ==
  {"{", "[]", "{}",
   "{\"laser\":{\"type\":\"projectile\",\"damage\":15,\"cooldown\":200}}",
   "{\"laser\":{\"type\":\"projectile\",\"damage\":-10,\"cooldown\":200}}",
   "{\"laser\":{\"type\":\"beam\",\"damage\":15,\"cooldown\":200,\"extra\":1}}",
   "{\"basic\":{\"health\":30,\"speed\":100,\"score\":100}}",
   "{\"basic\":{\"health\":0,\"speed\":100,\"score\":100}}",
   "{\"health\":{\"type\":\"powerup\",\"effect\":\"health\",\"value\":20}}",
   "{\"a\":{\"type\":\"powerup\",\"effect\":\"health\"},\"b\":{\"type\":\"powerup\"}}"}

Num(n) == <<"number", n>>
Str(s) == <<"string", s>>
Thrown == [error |-> TRUE]
Returned(value) == [error |-> FALSE, value |-> value]
Object(entries) == [type |-> "object", entries |-> entries]

\* JSON.parse on the texts above: a SyntaxError, or the value; an object is
\* the sequence of its keys and values in the order of the text.
JSONparse(text) ==
  CASE text = "{" -> Thrown
    [] text = "[]" -> Returned([type |-> "array", entries |-> <<>>])
    [] text = "{}" -> Returned(Object(<<>>))
    [] text = "{\"laser\":{\"type\":\"projectile\",\"damage\":15,\"cooldown\":200}}" ->
         Returned(Object(<<<<"laser", [type |-> Str("projectile"), damage |-> Num(15),
                                      cooldown |-> Num(200)]>>>>))
    [] text = "{\"laser\":{\"type\":\"projectile\",\"damage\":-10,\"cooldown\":200}}" ->
         Returned(Object(<<<<"laser", [type |-> Str("projectile"), damage |-> Num(-10),
                                      cooldown |-> Num(200)]>>>>))
    [] text = "{\"laser\":{\"type\":\"beam\",\"damage\":15,\"cooldown\":200,\"extra\":1}}" ->
         Returned(Object(<<<<"laser", [type |-> Str("beam"), damage |-> Num(15),
                                      cooldown |-> Num(200), extra |-> Num(1)]>>>>))
    [] text = "{\"basic\":{\"health\":30,\"speed\":100,\"score\":100}}" ->
         Returned(Object(<<<<"basic", [health |-> Num(30), speed |-> Num(100),
                                      score |-> Num(100)]>>>>))
    [] text = "{\"basic\":{\"health\":0,\"speed\":100,\"score\":100}}" ->
         Returned(Object(<<<<"basic", [health |-> Num(0), speed |-> Num(100),
                                      score |-> Num(100)]>>>>))
    [] text = "{\"health\":{\"type\":\"powerup\",\"effect\":\"health\",\"value\":20}}" ->
         Returned(Object(<<<<"health", [type |-> Str("powerup"), effect |-> Str("health"),
                                       value |-> Num(20)]>>>>))
    [] text = "{\"a\":{\"type\":\"powerup\",\"effect\":\"health\"},\"b\":{\"type\":\"powerup\"}}" ->
         Returned(Object(<<<<"a", [type |-> Str("powerup"), effect |-> Str("health")]>>,
                           <<"b", [type |-> Str("powerup")]>>>>))

IsString(v) == v[1] = "string"
IsNumber(v) == v[1] = "number"
IsPositive(v) == IsNumber(v) /\ v[2] > 0

\* The keys of the z.object of every loader, and those not optional.
Shape(kind) ==
  CASE kind = "weapon" ->
         {"type", "damage", "cooldown", "projectileSpeed", "projectileLifetime", "spread",
          "projectileCount", "texture", "soundEffect", "specialProperties"}
    [] kind = "enemy" ->
         {"health", "speed", "score", "texture", "weapons", "movementPattern", "spawnRate",
          "specialProperties"}
    [] kind = "item" ->
         {"type", "duration", "effect", "value", "texture", "soundEffect",
          "specialProperties"}
Required(kind) ==
  CASE kind = "weapon" -> {"type", "damage", "cooldown"}
    [] kind = "enemy" -> {"health", "speed", "score"}
    [] kind = "item" -> {"type", "effect"}

\* The schema of key f of the z.object of `kind`, for the keys the texts use.
FieldOk(kind, f, v) ==
  CASE f \in {"type", "effect"} -> IsString(v)
    [] f \in {"damage", "cooldown", "health", "speed"} -> IsPositive(v)
    [] f = "score" -> IsNumber(v) /\ v[2] >= 0
    [] f = "value" -> IsNumber(v) \/ IsString(v)

\* z.record(z.object({...})).parse(config): a ZodError, or the entries with
\* the keys the schema does not name stripped.
SchemaParse(kind, config) ==
  IF /\ config.type = "object"
     /\ \A k \in 1..Len(config.entries) :
          LET entry == config.entries[k][2]
          IN /\ Required(kind) \subseteq DOMAIN entry
             /\ \A f \in DOMAIN entry \cap Shape(kind) : FieldOk(kind, f, entry[f])
    THEN Returned([k \in 1..Len(config.entries) |->
                     <<config.entries[k][1],
                       [f \in DOMAIN config.entries[k][2] \cap Shape(kind) |->
                          config.entries[k][2][f]]>>])
    ELSE Thrown

\* { ...old, ...validated } from the k-th entry of validated on.
RECURSIVE Spread(_, _, _)
Spread(old, validated, k) ==
  IF k > Len(validated) THEN old
  ELSE Spread(MapSet(old, validated[k][1], validated[k][2]), validated, k + 1)

\* The try block of a loader up to the notification.
Validated(kind, jsonContent) ==
  IF JSONparse(jsonContent).error THEN Thrown
  ELSE SchemaParse(kind, JSONparse(jsonContent).value)

\* Nothing but the ConfigLoader changes.
LoaderOnly ==
  UNCHANGED <<worldVars, sysVars, entVars, collVars, ctlVars, ghostVars, histVars,
              collGhost, hookCalls, c1, c2, heap, lastOp, isRunning, otherVars>>

addConfigChangeListener(l) ==
  /\ configChangeListeners' = Append(configChangeListeners, l)
  /\ UNCHANGED configs

removeConfigChangeListener(l) ==
  LET index == FindIndex(configChangeListeners, LAMBDA x : x = l)
  IN /\ configChangeListeners' =
          IF index # 0 THEN RemoveAt(configChangeListeners, index)
                       ELSE configChangeListeners
     /\ UNCHANGED configs

\* A loader that stores what JSON.parse returned before it validates it.
LoadStartUnvalidated(kind, jsonContent) ==
  /\ configs' =
       IF JSONparse(jsonContent).error \/ JSONparse(jsonContent).value.type # "object"
         THEN configs
         ELSE [configs EXCEPT
                 ![kind] = Spread(@, JSONparse(jsonContent).value.entries, 1)]
  /\ load' = IF Validated(kind, jsonContent).error
               THEN [IdleLoad EXCEPT !.pc = "returned", !.kind = kind,
                                     !.text = jsonContent, !.before = configs]
               ELSE [IdleLoad EXCEPT !.pc = "notify", !.kind = kind, !.idx = 1,
                                     !.text = jsonContent, !.before = configs,
                                     !.registered = configChangeListeners,
                                     !.stored = Validated(kind, jsonContent).value]
  /\ UNCHANGED configChangeListeners

\* loadWeaponConfig, loadEnemyConfig, loadItemConfig up to the loop of
\* notifyConfigChange: an exception of JSON.parse or of the schema is caught and
\* false is returned.
LoadStart(kind, jsonContent) ==
  IF Validated(kind, jsonContent).error
    THEN /\ load' = [IdleLoad EXCEPT !.pc = "returned", !.kind = kind,
                                     !.text = jsonContent, !.before = configs]
         /\ UNCHANGED <<configs, configChangeListeners>>
    ELSE /\ configs' =
              [configs EXCEPT ![kind] = Spread(@, Validated(kind, jsonContent).value, 1)]
         /\ load' = [IdleLoad EXCEPT !.pc = "notify", !.kind = kind, !.idx = 1,
                                     !.text = jsonContent, !.before = configs,
                                     !.registered = configChangeListeners,
                                     !.stored = Validated(kind, jsonContent).value]
         /\ UNCHANGED configChangeListeners

\* What a config-change listener does when it is called: nothing of the
\* loader, a removeConfigChangeListener, or it throws.
ConfigListenerReactions ==
  {<<"return", 0>>, <<"throw", 0>>} \cup {<<"remove", l>> : l \in ConfigListenerObjs}
ConfigListenerCall(reaction) ==
  IF reaction[1] = "remove" THEN removeConfigChangeListener(reaction[2])
  ELSE UNCHANGED <<configs, configChangeListeners>>

\* One turn of the for-of loop of notifyConfigChange: the iterator reads the
\* array as it is now.  An exception of the listener is caught by the loader,
\* which returns false.
NotifyConfigChange ==
  /\ load.pc = "notify" /\ load.idx <= Len(configChangeListeners)
  /\ \E reaction \in ConfigListenerReactions :
       /\ ConfigListenerCall(reaction)
       /\ load' =
            [load EXCEPT
               !.pc = IF reaction[1] = "throw" THEN "returned" ELSE @,
               !.idx = @ + 1,
               !.delivered = Append(@, <<configChangeListeners[load.idx], load.kind>>),
               !.removed = IF reaction[1] = "remove" THEN @ \cup {reaction[2]} ELSE @]
  /\ LoaderOnly

\* The loop is over: return true.
LoadReturn ==
  /\ load.pc = "notify" /\ load.idx > Len(configChangeListeners)
  /\ load' = [load EXCEPT !.pc = "returned", !.result = TRUE]
  /\ UNCHANGED <<configs, configChangeListeners>>
  /\ LoaderOnly

\* ------------------------------------------------------------- SpecConfig
\* A new ConfigLoader.  Outside code registers and removes listeners and
\* calls the three loaders with any of the texts.
InitConfig ==
  /\ entities = <<>> /\ entitiesToAdd = <<>> /\ entitiesToRemove = <<>>
  /\ systems = <<>> /\ entityListeners = <<>>
  /\ sysActive = [s \in SystemObjs |-> TRUE]
  /\ sysWorld = [s \in SystemObjs |-> FALSE]
  /\ components = [e \in EntityObjs |-> [t \in TypeIds |-> NoComp]]
  /\ owner = [c \in CompObjs |-> Null]
  /\ tags = [e \in EntityObjs |-> {}]
  /\ entActive = [e \in EntityObjs |-> TRUE]
  /\ tpos = [c \in TransformObjs |-> <<0, 0>>]
  /\ collider = [c \in ColliderObjs |-> DefaultCollider]
  /\ velocity = [e \in EntityObjs |-> NoVelocity]
  /\ trs = [c \in TransformObjs |-> DefaultRS]
  /\ collisionPairs = [s \in CollisionObjs |-> <<>>]
  /\ collisionListeners = [s \in CollisionObjs |-> <<>>]
  /\ pc = "idle" /\ idx = 0 /\ lidx = 0
  /\ trace = <<>> /\ runLog = <<>> /\ adds0 = <<>> /\ rems0 = <<>> /\ reg0 = <<>>
  /\ addOrder = <<>> /\ skipped = {}
  /\ events = <<>> /\ overlapNow = {} /\ vanished = {} /\ movedInto = {} /\ hookCalls = <<>>
  /\ dispatch = [registered |-> <<>>, delivered |-> <<>>, removed |-> {}]
  /\ LabIdle

LoaderIdle == load.pc \in {"idle", "returned"}

CallAddConfigChangeListener ==
  \E l \in ConfigListenerObjs :
    /\ LoaderIdle /\ l \notin Range(configChangeListeners)
    /\ addConfigChangeListener(l) /\ UNCHANGED load /\ LoaderOnly
CallRemoveConfigChangeListener ==
  \E l \in ConfigListenerObjs :
    LoaderIdle /\ removeConfigChangeListener(l) /\ UNCHANGED load /\ LoaderOnly
CallLoad ==
  \E kind \in ConfigKinds, jsonContent \in JsonTexts :
    LoaderIdle /\ LoadStart(kind, jsonContent) /\ LoaderOnly

NextConfig ==
  \/ CallAddConfigChangeListener \/ CallRemoveConfigChangeListener \/ CallLoad
  \/ NotifyConfigChange \/ LoadReturn

SpecConfig == InitConfig /\ [][NextConfig]_vars

\* The loader was handed a text that is not JSON or does not pass the schema.
InvalidInput ==
  \/ JSONparse(load.text).error
  \/ SchemaParse(load.kind, JSONparse(load.text).value).error

\* ------------------------------------------------------------- claims (SpecConfig)
\* C24: a load of any of the three kinds with a text that is not valid JSON or
\* fails the schema returns false, leaves the three configuration maps as they
\* were and calls no listener.
C24_InvalidLoadChangesNothing ==
  (load.pc = "returned" /\ InvalidInput) =>
    /\ load.result = FALSE
    /\ configs = load.before
    /\ load.delivered = <<>>

\* C24 witness: with a weapon stored and a listener registered, a weapon text
\* with a negative damage has been refused.
C24_Witness ==
  /\ load.pc = "returned" /\ load.kind = "weapon"
  /\ load.text = "{\"laser\":{\"type\":\"projectile\",\"damage\":-10,\"cooldown\":200}}"
  /\ load.result = FALSE
  /\ MapHas(configs["weapon"], "laser")
  /\ configChangeListeners # <<>>

\* C25: a load that returns true has called every listener that was
\* registered when it began and was not removed since exactly once, with the
\* kind, the stored configuration holding the loaded entries by then; and it
\* has called no listener that was not registered when it began.
C25_EveryListenerOnce ==
  (load.pc = "returned" /\ load.result) =>
    /\ \A l \in Range(load.registered) \ load.removed :
         Count(load.delivered, <<l, load.kind>>) = 1
    /\ \A k \in 1..Len(load.delivered) : load.delivered[k][1] \in Range(load.registered)
    /\ \A k \in 1..Len(load.stored) :
         /\ MapHas(configs[load.kind], load.stored[k][1])
         /\ MapGet(configs[load.kind], load.stored[k][1]) = load.stored[k][2]

\* ------------------------------------------------------------- SpecDispatch
\* The listener list of one CollisionSystem and the dispatch of one event.
\* Outside code subscribes listeners that are not subscribed and unsubscribes
\* listeners between dispatches; a listener may do the same from its callback.
CallAddCollisionListener ==
  \E l \in CollisionListenerObjs \ Range(collisionListeners["collision"]) :
    Outside /\ AddCollisionListener("collision", l) /\ UNCHANGED histVars
CallRemoveCollisionListener ==
  \E l \in CollisionListenerObjs :
    Outside /\ RemoveCollisionListener("collision", l) /\ UNCHANGED histVars

NextDispatch ==
  \/ CallAddCollisionListener \/ CallRemoveCollisionListener
  \/ DispatchStart("collision") \/ DispatchCall("collision") \/ DispatchReturn("collision")

SpecDispatch == Init /\ [][NextDispatch]_vars

\* ------------------------------------------------------------- claims (SpecDispatch)
\* C17: when a dispatch has returned, every listener that was registered when
\* it was entered and was not removed while it ran has been called exactly
\* once with the event, also when callbacks have added or removed listeners;
\* and no listener is called after it has been removed.
C17_EveryListenerOnce ==
  /\ pc = "done" =>
       \A l \in Range(dispatch.registered) \ dispatch.removed :
         Count(dispatch.delivered, l) = 1
  /\ pc = "dispatch" =>
       \A l \in dispatch.removed \ Range(collisionListeners["collision"]) :
         \A k \in lidx..Len(collisionListeners["collision"]) :
           collisionListeners["collision"][k] # l

\* ------------------------------------------------------------- claims (SpecColl)
\* C2: a CollisionSystem.update dispatches, for every pair of entities of the
\* registry, exactly one event when the pair collides now or collided at the
\* previous update and none otherwise: ENTER when it collides now and did not
\* before, STAY when it collides at both, EXIT when it collided before and
\* does not now; and it dispatches no event for anything else.  So a pair that
\* collides at no, yes, yes, no of four updates gets none, ENTER, STAY, EXIT.
C2_OneEventPerPair ==
  [][runLog' = Append(runLog, "collision") =>
       /\ \A k \in 1..Len(events') :
            {events'[k][2], events'[k][3]} \subseteq Range(getEntities)
       /\ \A a \in Range(getEntities), b \in Range(getEntities) :
            a < b =>
              SelectSeq(events', LAMBDA ev : {ev[2], ev[3]} = {a, b}) =
                IF {a, b} \in overlapNow' /\ {a, b} \notin overlapNow
                  THEN <<<<"ENTER", a, b>>>>
                ELSE IF {a, b} \in overlapNow' /\ {a, b} \in overlapNow
                  THEN <<<<"STAY", a, b>>>>
                ELSE IF {a, b} \in overlapNow
                  THEN <<<<"EXIT", a, b>>>>
                ELSE <<>>]_vars

\* C2 witness: an update has dispatched EXIT for a pair of active entities
\* that collided at the update before (where, by C2, it got ENTER or STAY) and
\* is now apart.
C2_Witness ==
  /\ pc = "done" /\ "collision" \in Range(runLog)
  /\ events = <<<<"EXIT", 1, 2>>>>
  /\ {1, 2} \notin overlapNow
  /\ entActive[1] /\ entActive[2]

\* C16: when an entity of a pair recorded at the previous update is gone from
\* the registry at a CollisionSystem.update, that update dispatches no ENTER,
\* STAY or EXIT for the pair, and the pair is not in the recorded set after it.
C16_VanishedPairNoEvent ==
  (pc \in {"systems", "done"} /\ "collision" \in Range(runLog)) =>
    \A p \in vanished :
      /\ \A k \in 1..Len(events) : {events[k][2], events[k][3]} # {p[1], p[3]}
      /\ p \notin Range(collisionPairs["collision"])

\* C16 witness: an update has run after one entity of a recorded pair was
\* removed while the other stayed.
C16_Witness ==
  /\ pc = "done" /\ "collision" \in Range(runLog)
  /\ vanished = {<<1, Colon, 2>>}
  /\ 1 \in Range(getEntities) /\ 2 \notin Range(getEntities)

\* C18: the pair id does not depend on the order of the two entities,
\* getCollisionPairId(A, B) = getCollisionPairId(B, A); and whatever the order
\* of the registry, a CollisionSystem.update leaves at most one record and
\* dispatches at most one event for every unordered pair of entities.
C18_PairIdOrderIndependent ==
  /\ \A a \in EntityObjs, b \in EntityObjs :
       getCollisionPairId(a, b) = getCollisionPairId(b, a)
  /\ (pc \in {"systems", "done"} /\ "collision" \in Range(runLog)) =>
       \A a \in EntityObjs, b \in EntityObjs :
         /\ Cardinality({k \in 1..Len(collisionPairs["collision"]) :
                           Range(Split(collisionPairs["collision"][k])) = {a, b}}) <= 1
         /\ Cardinality({k \in 1..Len(events) : {events[k][2], events[k][3]} = {a, b}}) <= 1

\* C18 witness: the registry holds entity 2 before entity 1, both overlap, and
\* the update has recorded the one pair id 1:2 and dispatched the one ENTER.
C18_Witness ==
  /\ pc = "done" /\ "collision" \in Range(runLog)
  /\ getEntities = <<2, 1>>
  /\ collisionPairs["collision"] = <<getCollisionPairId(2, 1)>>
  /\ Len(events) = 1 /\ events[1][1] = "ENTER" /\ {events[1][2], events[1][3]} = {1, 2}

\* ------------------------------------------------------------- claims (SpecLayers)
MasksAllow(a, b) ==
  /\ BitAnd(collider[getComponent(a, "Collider")].mask,
            collider[getComponent(b, "Collider")].layer) # 0
  /\ BitAnd(collider[getComponent(b, "Collider")].mask,
            collider[getComponent(a, "Collider")].layer) # 0

\* C7: a pair is recorded as colliding, and gets ENTER or STAY, only when the
\* mask of each of its two colliders has a bit in common with the layer of the
\* other: a collider of layer 1 and mask 2 and one of layer 4 and mask 8 that
\* overlap produce no event.
C7_LayerMaskGate ==
  /\ \A k \in 1..Len(events) :
       events[k][1] \in {"ENTER", "STAY"} => MasksAllow(events[k][2], events[k][3])
  /\ \A k \in 1..Len(collisionPairs["collision"]) :
       MasksAllow(collisionPairs["collision"][k][1], collisionPairs["collision"][k][3])

\* C7 witness: after an update, a collider of layer 1 and mask 2 and one of
\* layer 4 and mask 8 overlap and no event was dispatched.
C7_Witness ==
  /\ pc = "done" /\ "collision" \in Range(runLog)
  /\ collider[<<"Collider", 1>>] = LayeredCollider(1, 2)
  /\ collider[<<"Collider", 2>>] = LayeredCollider(4, 8)
  /\ {1, 2} \subseteq Range(getEntities)
  /\ checkCollision(1, 2)
  /\ events = <<>>

\* ------------------------------------------------------------- claims (Spec)
\* What getEntity, getEntities and getEntitiesByTag return.
RegistryView ==
  <<[id \in EntityObjs |-> getEntity(id)], getEntities,
    [tag \in Tags |-> getEntitiesByTag(tag)]>>

AddEntityCall == \E e \in EntityObjs : AddEntity(e)
RemoveEntityCall == \E e \in EntityObjs : RemoveEntity(e)

\* C1: no addEntity or removeEntity call, from a system's update or from
\* outside, changes what getEntity, getEntities and getEntitiesByTag return,
\* and no step of the systems' part of an update changes it: all the systems
\* of one update see the same registry.
C1_RegistryStableBetweenFlushes ==
  [][(AddEntityCall \/ RemoveEntityCall \/ pc = "systems")
       => RegistryView' = RegistryView]_vars

\* C1 witness: during the systems' part of an update one system has asked to
\* remove an entity of the registry and another to add one that is not in it.
C1_Witness ==
  /\ pc = "systems" /\ Len(runLog) >= 2
  /\ \E e \in Range(entitiesToAdd) : e \notin Range(entities)
  /\ \E e \in Range(entitiesToRemove) : e \in Range(entities)

\* The notifications one registry write is followed by: one per listener.
Notes(kind, e, lis) == [i \in 1..Len(lis) |-> <<kind, e, lis[i]>>]

\* The registry after the additions `adds`, and what flushing them does.
RECURSIVE RegAfterAdds(_, _)
RegAfterAdds(reg, adds) ==
  IF adds = <<>> THEN reg
  ELSE RegAfterAdds(IF Head(adds) \in Range(reg) THEN reg ELSE Append(reg, Head(adds)),
                    Tail(adds))

RECURSIVE AddPart(_, _)
AddPart(adds, lis) ==
  IF adds = <<>> THEN <<>>
  ELSE <<<<"set", Head(adds), 0>>>> \o Notes("added", Head(adds), lis)
         \o AddPart(Tail(adds), lis)

\* What flushing the removals `rems` does to the registry `reg`.
RECURSIVE RemovePart(_, _, _)
RemovePart(rems, reg, lis) ==
  IF rems = <<>> THEN <<>>
  ELSE IF Head(rems) \in Range(reg)
    THEN <<<<"delete", Head(rems), 0>>>> \o Notes("removed", Head(rems), lis)
           \o RemovePart(Tail(rems), SelectSeq(reg, LAMBDA x : x # Head(rems)), lis)
    ELSE RemovePart(Tail(rems), reg, lis)

C5_AsStated ==
  pc = "done" =>
    \A e \in Range(adds0) : getEntity(e) = e /\ Count(getEntities, e) = 1

\* C5 as amended: every entity in the addition buffer when an update starts,
\* once or several times, whose id is not in the removal buffer at that
\* moment, is returned by getEntity and is in getEntities exactly once after
\* the update.
C5_AddedThenPresentOnce ==
  pc = "done" =>
    \A e \in Range(adds0) \ Range(rems0) :
      getEntity(e) = e /\ Count(getEntities, e) = 1

\* C5 witness: an update has returned that flushed the same entity twice.
C5_Witness ==
  /\ pc = "done"
  /\ \E e \in EntityObjs \ Range(rems0) : Count(adds0, e) >= 2 /\ e \notin Range(reg0)

\* C6: an entity of the registry whose id is in the removal buffer when an
\* update starts is absent from getEntity and getEntities after the update,
\* each listener having been told once of its removal; and a removeEntity of
\* an id that is already buffered changes nothing, so that calling it twice
\* before the flush is the same as calling it once.
C6_RemovedThenAbsent ==
  [][/\ pc' = "done" =>
          \A e \in Range(rems0') \cap Range(reg0') :
            /\ getEntity(e)' = Null
            /\ e \notin Range(getEntities')
            /\ \A l \in Range(entityListeners') :
                 Count(trace', <<"removed", e, l>>) = 1
     /\ \A e \in Range(entitiesToRemove) : RemoveEntity(e) => UNCHANGED progVars
    ]_vars

\* C6 witness: an update has returned that removed an entity of the registry
\* and told a listener of it.
C6_Witness ==
  /\ pc = "done"
  /\ \E e \in Range(rems0) \cap Range(reg0) :
       \E l \in Range(entityListeners) : Count(trace, <<"removed", e, l>>) = 1

\* C14: a clear called between two updates takes effect at once: after it
\* getEntities is empty, both buffers are empty, the system list is empty,
\* destroy() has been called once on every system that was in the list and
\* its world back-reference is null, and no listener has been notified; and an
\* update that starts with both buffers empty, as the one following a clear
\* does, adds and removes nothing.
C14_ClearEmptiesWorld ==
  [][/\ (Outside /\ Clear) =>
          /\ getEntities' = <<>>
          /\ entitiesToAdd' = <<>> /\ entitiesToRemove' = <<>>
          /\ systems' = <<>>
          /\ \A s \in Range(systems) :
               Count(hookCalls', <<"destroy", s>>) = 1 /\ ~sysWorld'[s]
          /\ Len(hookCalls') = Len(systems)
          /\ trace' = <<>>
          /\ entityListeners' = entityListeners
     /\ (pc' = "done" /\ adds0' = <<>> /\ rems0' = <<>>)
          => trace' = <<>> /\ getEntities' = reg0'
    ]_vars

\* C14 witness: clear has just emptied a World that had two systems and a
\* listener.
C14_Witness ==
  /\ pc = "idle" /\ entityListeners # <<>>
  /\ hookCalls = <<<<"destroy", "health">>, <<"destroy", "spawn">>>>
  /\ getEntities = <<>> /\ systems = <<>>

\* ------------------------------------------------------------- claims (Spec), pending entities
\* C30: when an update starts with an entity in the addition buffer that is
\* not in the registry and with its id in the removal buffer, whichever of
\* addEntity and removeEntity was called first, the entity is not in the
\* registry after the flush, and every listener has been given its add
\* notification and after it its removal notification.
C30_PendingAddThenRemoved ==
  pc \in {"systems", "done"} =>
    \A e \in Range(adds0) :
      (e \notin Range(reg0) /\ e \in Range(rems0)) =>
        /\ e \notin Range(getEntities)
        /\ \A l \in Range(entityListeners) :
             \E i \in 1..Len(trace), j \in 1..Len(trace) :
               /\ i < j
               /\ trace[i] = <<"added", e, l>>
               /\ trace[j] = <<"removed", e, l>>
               /\ Count(trace, <<"removed", e, l>>) = 1

\* C30 witness: an update has returned that started with the registry empty,
\* the first entity pending and its id to be removed, a listener registered.
C30_Witness ==
  /\ pc = "done"
  /\ reg0 = <<>> /\ adds0 = <<1>> /\ rems0 = <<1>>
  /\ entityListeners # <<>>
  /\ getEntity(1) = Null
  /\ Len(trace) = 2 + 2 * Len(entityListeners)

\* ------------------------------------------------------------- SpecLose
\* The rectangles of the ENTER/STAY/EXIT tests, handed to addEntity in the
\* order of their ids.  Outside code moves the entities, switches them active
\* and inactive, and removes and adds again the transform and the collider of
\* the first entity; no entity leaves the World.
InitLose ==
  /\ InitBuilt([e \in EntityObjs |-> RectCollider], <<100, 100>>)
  /\ entitiesToAdd = [i \in 1..NumEntities |-> i]

NextLose ==
  \/ CallSetPosition \/ CallSetEntityActive
  \/ CallAddOwnComponent \/ CallRemoveOwnComponent
  \/ UpdateStart \/ FlushAddEntity \/ FlushAddDone \/ FlushRemoveDone
  \/ RunSystem(CollUpdate) \/ UpdateReturn

SpecLose == InitLose /\ [][NextLose]_vars

\* Entity e is looked at by the CollisionSystem: active, with a transform and
\* a collider.
Takes(e) == entActive[e] /\ hasComponent(e, "Transform") /\ hasComponent(e, "Collider")

\* The events of the sequence evs of type `type` for the entities a and b.
EventsFor(evs, type, a, b) ==
  {k \in 1..Len(evs) : evs[k][1] = type /\ {evs[k][2], evs[k][3]} = {a, b}}

\* ------------------------------------------------------------- claims (SpecLose)
\* C29: an entity that is inactive or has no transform or no collider is in
\* no ENTER and no STAY event; and when an entity of a pair recorded as
\* colliding is inactive or without its collider or transform at the next
\* CollisionSystem.update, both still being in the World, that update
\* dispatches exactly one EXIT for the pair and no other event for it.
C29_DroppedMemberExits ==
  [][runLog' = Append(runLog, "collision") =>
       /\ \A k \in 1..Len(events') :
            events'[k][1] \in {"ENTER", "STAY"} => Takes(events'[k][2]) /\ Takes(events'[k][3])
       /\ \A p \in Range(collisionPairs["collision"]) :
            (/\ {p[1], p[3]} \subseteq Range(getEntities)
             /\ ~(Takes(p[1]) /\ Takes(p[3])))
              => /\ Cardinality(EventsFor(events', "EXIT", p[1], p[3])) = 1
                 /\ EventsFor(events', "ENTER", p[1], p[3]) = {}
                 /\ EventsFor(events', "STAY", p[1], p[3]) = {}]_vars

\* C29 witness: the first entity of a recorded pair has lost its collider,
\* the second is inactive, both are in the World, and the update has
\* dispatched the EXIT.
C29_Witness ==
  /\ pc = "done" /\ runLog = <<"collision">>
  /\ {1, 2} \subseteq Range(getEntities)
  /\ ~hasComponent(1, "Collider") /\ ~entActive[2]
  /\ events = <<<<"EXIT", 1, 2>>>>
  /\ collisionPairs["collision"] = <<>>

\* ------------------------------------------------------------- claims (SpecQuiet)
\* The call in progress reports nothing and changes nothing: no init() or
\* destroy(), no notification, and the registry, the system list, the
\* components with their owners and the tags as they were.
Quiet ==
  /\ hookCalls' = <<>> /\ trace' = <<>>
  /\ UNCHANGED <<entities, systems, components, owner, tags>>

\* The update that has just returned went as it would have gone without the
\* ids `ids` in its removal buffer, and none of them is in the registry.
UpdateIgnored(ids) ==
  /\ trace = AddPart(adds0, entityListeners)
               \o RemovePart(SelectSeq(rems0, LAMBDA id : id \notin ids),
                             RegAfterAdds(reg0, adds0), entityListeners)
  /\ \A id \in ids : getEntity(id) = Null
  /\ hookCalls = <<>>

\* The four calls with an absent target are quiet.
AbsentTargetCallsQuiet ==
  /\ \A id \in EntityObjs :
       (Outside /\ RemoveEntity(id) /\ getEntity(id) = Null) => Quiet
  /\ \A e \in EntityObjs, type \in TypeIds :
       (Outside /\ RemoveComponent(e, type) /\ ~hasComponent(e, type)) => Quiet
  /\ \A e \in EntityObjs, tag \in Tags :
       (Outside /\ RemoveTag(e, tag) /\ ~hasTag(e, tag)) => Quiet
  /\ \A kind \in Kinds :
       (/\ Outside /\ RemoveSystem(kind)
        /\ \A s \in Range(systems) : Kind(s) # kind) => Quiet

\* C20 as stated: removeEntity with an id that is not in the registry,
\* removeComponent of an absent type, removeTag of an absent tag and
\* removeSystem of a kind with no instance call no destroy(), notify no
\* listener and leave the registry, the system list, the components and the
\* tags unchanged, and the next update notifies nobody of such an id and
\* leaves the registry without it.
C20_AsStated ==
  [][/\ AbsentTargetCallsQuiet
     /\ pc' = "done" => UpdateIgnored(Range(rems0) \ Range(reg0))'
    ]_vars

\* C20: the same with the removeEntity being one of an id that is neither in
\* the registry nor waiting in the addition buffer when the next update
\* starts: that update goes as if the id had never been passed to
\* removeEntity.
C20_AbsentTargetsNoOp ==
  [][/\ AbsentTargetCallsQuiet
     /\ pc' = "done" => UpdateIgnored(Range(rems0) \ (Range(reg0) \cup Range(adds0)))'
    ]_vars

\* C20 witness: an update has returned whose removal buffer held an id that
\* was neither registered nor waiting to be added, with an entity registered,
\* a system registered and a listener listening.
C20_Witness ==
  /\ pc = "done"
  /\ Range(rems0) \ (Range(reg0) \cup Range(adds0)) # {}
  /\ entities # <<>> /\ systems # <<>> /\ entityListeners # <<>>
  /\ tags[1] # {} /\ hasComponent(1, "Transform")

\* ------------------------------------------------------------- ObjectPool
MaxPoolObjs == 3
MaxPoolSize == 2

\* Nothing but the ObjectPool changes.
PoolOnly ==
  UNCHANGED <<worldVars, sysVars, entVars, collVars, ctlVars, ghostVars, histVars,
              collGhost, hookCalls, c1, c2, heap, lastOp, configs,
              configChangeListeners, load, isRunning, timerLog, fieldVars>>

\* The call `op` returns; `calls` are the calls of factory, reset and activate
\* it made, `made` the number of objects the factory has made.
PoolReturn(op, calls, returned, made) ==
  [pc |-> "idle", op |-> op, calls |-> calls, returned |-> returned, made |-> made,
   before |-> pool]

\* ObjectPool.get: the factory makes the objects 1, 2, ...
get ==
  IF Len(pool) > 0
    THEN /\ pool' = SubSeq(pool, 1, Len(pool) - 1)
         /\ poolOp' = PoolReturn("get", <<<<"activate", pool[Len(pool)]>>>>,
                                 pool[Len(pool)], poolOp.made)
         /\ UNCHANGED maxSize
    ELSE /\ poolOp' = PoolReturn("get", <<<<"factory", poolOp.made + 1>>,
                                          <<"activate", poolOp.made + 1>>>>,
                                 poolOp.made + 1, poolOp.made + 1)
         /\ UNCHANGED <<pool, maxSize>>

\* A release that does not look whether the pool is full.
releaseAlways(obj) ==
  /\ pool' = Append(pool, obj)
  /\ poolOp' = PoolReturn("release", <<<<"reset", obj>>>>, Null, poolOp.made)
  /\ UNCHANGED maxSize

\* ObjectPool.release.
release(obj) ==
  IF Len(pool) >= maxSize
    THEN /\ poolOp' = PoolReturn("release", <<>>, Null, poolOp.made)
         /\ UNCHANGED <<pool, maxSize>>
    ELSE /\ pool' = Append(pool, obj)
         /\ poolOp' = PoolReturn("release", <<<<"reset", obj>>>>, Null, poolOp.made)
         /\ UNCHANGED maxSize

\* ObjectPool.clear.
clear ==
  /\ pool' = <<>>
  /\ poolOp' = PoolReturn("clear", <<>>, Null, poolOp.made)
  /\ UNCHANGED maxSize

\* ObjectPool.preFill: the loop runs fillCount times, not at all when
\* fillCount is zero or negative.
preFill(count) ==
  LET fillCount == Max(0, Min(count, maxSize - Len(pool)))
  IN /\ pool' = pool \o [i \in 1..fillCount |-> poolOp.made + i]
     /\ poolOp' =
          PoolReturn("preFill",
                     [k \in 1..(2 * fillCount) |->
                        <<IF k % 2 = 1 THEN "factory" ELSE "reset",
                          poolOp.made + ((k + 1) \div 2)>>],
                     Null, poolOp.made + fillCount)
     /\ UNCHANGED maxSize

\* ObjectPool.setMaxSize: the assignment, then the while loop turn by turn.
setMaxSize(size) ==
  /\ maxSize' = size
  /\ poolOp' = [PoolReturn("setMaxSize", <<>>, Null, poolOp.made) EXCEPT
                  !.pc = "setMaxSize"]
  /\ UNCHANGED pool

\* while (this.pool.length > this.maxSize) this.pool.pop(): pop() of an empty
\* array returns undefined and leaves the array empty.
SetMaxSizePop ==
  /\ poolOp.pc = "setMaxSize" /\ Len(pool) > maxSize
  /\ pool' = IF Len(pool) > 0 THEN SubSeq(pool, 1, Len(pool) - 1) ELSE pool
  /\ UNCHANGED <<maxSize, poolOp>>
  /\ PoolOnly

SetMaxSizeReturn ==
  /\ poolOp.pc = "setMaxSize" /\ ~(Len(pool) > maxSize)
  /\ poolOp' = [poolOp EXCEPT !.pc = "idle"]
  /\ UNCHANGED <<pool, maxSize>>
  /\ PoolOnly

\* ------------------------------------------------------------- SpecPool
\* A pool built with some capacity.  Outside code calls get (while the
\* factory has objects left), release with any object made so far, clear,
\* preFill and setMaxSize with sizes that are not negative.
\* A world with nothing in it.
NoWorld ==
  /\ entities = <<>> /\ entitiesToAdd = <<>> /\ entitiesToRemove = <<>>
  /\ systems = <<>> /\ entityListeners = <<>>
  /\ sysActive = [s \in SystemObjs |-> TRUE]
  /\ sysWorld = [s \in SystemObjs |-> FALSE]
  /\ components = [e \in EntityObjs |-> [t \in TypeIds |-> NoComp]]
  /\ owner = [c \in CompObjs |-> Null]
  /\ tags = [e \in EntityObjs |-> {}]
  /\ entActive = [e \in EntityObjs |-> TRUE]
  /\ tpos = [c \in TransformObjs |-> <<0, 0>>]
  /\ collider = [c \in ColliderObjs |-> DefaultCollider]
  /\ velocity = [e \in EntityObjs |-> NoVelocity]
  /\ trs = [c \in TransformObjs |-> DefaultRS]
  /\ collisionPairs = [s \in CollisionObjs |-> <<>>]
  /\ collisionListeners = [s \in CollisionObjs |-> <<>>]
  /\ pc = "idle" /\ idx = 0 /\ lidx = 0
  /\ trace = <<>> /\ runLog = <<>> /\ adds0 = <<>> /\ rems0 = <<>> /\ reg0 = <<>>
  /\ addOrder = <<>> /\ skipped = {}
  /\ events = <<>> /\ overlapNow = {} /\ vanished = {} /\ movedInto = {} /\ hookCalls = <<>>
  /\ dispatch = [registered |-> <<>>, delivered |-> <<>>, removed |-> {}]

InitPool ==
  /\ NoWorld /\ NoComponents /\ NoLoader
  /\ timerLog = IdleTimerLog /\ NoFields
  /\ pool = <<>> /\ poolOp = IdlePoolOp
  /\ maxSize \in 0..MaxPoolSize

PoolIdle == poolOp.pc = "idle"

CallGet ==
  /\ PoolIdle /\ (Len(pool) > 0 \/ poolOp.made < MaxPoolObjs)
  /\ get /\ PoolOnly
CallRelease ==
  \E obj \in 1..poolOp.made : PoolIdle /\ release(obj) /\ PoolOnly
CallPoolClear == PoolIdle /\ clear /\ PoolOnly
CallPreFill ==
  \E count \in 0..MaxPoolSize :
    /\ PoolIdle /\ poolOp.made + count <= MaxPoolObjs
    /\ preFill(count) /\ PoolOnly
CallSetMaxSize ==
  \E size \in 0..MaxPoolSize : PoolIdle /\ setMaxSize(size) /\ PoolOnly

NextPool ==
  \/ CallGet \/ CallRelease \/ CallPoolClear \/ CallPreFill \/ CallSetMaxSize
  \/ SetMaxSizePop \/ SetMaxSizeReturn

SpecPool == InitPool /\ [][NextPool]_vars

\* ------------------------------------------------------------- SpecPoolAny
\* The same pool, with preFill and setMaxSize called with any integer from -1
\* on.  A call that has begun goes on: the loop of setMaxSize takes its next
\* turn or returns.
CallPreFillAny ==
  \E count \in (0 - 1)..MaxPoolSize :
    /\ PoolIdle /\ poolOp.made + count <= MaxPoolObjs
    /\ preFill(count) /\ PoolOnly
CallSetMaxSizeAny ==
  \E size \in (0 - 1)..MaxPoolSize : PoolIdle /\ setMaxSize(size) /\ PoolOnly

NextPoolAny ==
  \/ CallGet \/ CallRelease \/ CallPoolClear \/ CallPreFillAny \/ CallSetMaxSizeAny
  \/ SetMaxSizePop \/ SetMaxSizeReturn

SpecPoolAny ==
  /\ InitPool /\ [][NextPoolAny]_vars
  /\ WF_vars(SetMaxSizePop) /\ WF_vars(SetMaxSizeReturn)

\* ------------------------------------------------------------- claims (SpecPool)
\* C39: with sizes that are not negative, after every call of get, release,
\* preFill, clear and setMaxSize, 0 <= size() <= getMaxSize(); a release on a
\* full pool leaves the pool as it was and does not call reset; get returns
\* an object, never null, and calls activate exactly once, on that object.
C39_PoolWithinCapacity ==
  /\ PoolIdle => (0 <= Len(pool) /\ Len(pool) <= maxSize)
  /\ (PoolIdle /\ poolOp.op = "release" /\ Len(poolOp.before) >= maxSize) =>
       (pool = poolOp.before /\ poolOp.calls = <<>>)
  /\ (PoolIdle /\ poolOp.op = "get") =>
       /\ poolOp.returned # Null
       /\ SelectSeq(poolOp.calls, LAMBDA c : c[1] = "activate")
            = <<<<"activate", poolOp.returned>>>>

\* C39 witness: a release has been refused by a pool that holds two objects
\* and has capacity two.
C39_Witness ==
  /\ PoolIdle /\ poolOp.op = "release"
  /\ Len(poolOp.before) = 2 /\ maxSize = 2 /\ Len(pool) = 2
  /\ poolOp.calls = <<>>

\* ------------------------------------------------------------- claims (SpecPoolAny)
\* C40: setMaxSize returns for every integer argument, below the current
\* size of the pool and negative ones included, and leaves
\* size() <= max(0, maxSize).
C40_SetMaxSizeTerminates ==
  (poolOp.pc = "setMaxSize") ~> (PoolIdle /\ Len(pool) <= Max(0, maxSize))

\* ------------------------------------------------------------- SpecTimer
\* A TimerComponent c1.  Outside code adds timers "t" and "u" with positive
\* durations, removes, resets, pauses and resumes them, and calls update with
\* deltaTime 0..MaxDt.  timerLog keeps, for each id since its addTimer, the time
\* the updates have given it while it ran (until a resetTimer), the calls of
\* its callback, and the time it had left when it was paused.
MaxDuration == 2
MaxDt == 2
MaxFires == 2

TimerOnly ==
  UNCHANGED <<worldVars, sysVars, entVars, collVars, ctlVars, ghostVars, histVars,
              collGhost, hookCalls, c1, c2, configs, configChangeListeners, load,
              isRunning, poolVars, fieldVars>>

\* TimerComponent.getTimeRemaining.
getTimeRemaining(h, c, id) ==
  IF MapHas(h[c.timers], id)
    THEN (IF MapGet(h[c.timers], id) < 0 THEN -MapGet(h[c.timers], id)
          ELSE MapGet(h[c.timers], id))
    ELSE 0

InitTimer ==
  /\ NoWorld /\ NoLoader /\ NoPool /\ NoFields
  /\ c1 = NewTimer(<<>>).obj /\ heap = NewTimer(<<>>).heap
  /\ c2 = NoObj /\ lastOp = <<"none">>
  /\ timerLog = IdleTimerLog

CallAddTimer ==
  \E id \in LabTimerIds, duration \in 1..MaxDuration, repeat \in BOOLEAN :
    /\ heap' = addTimer(heap, c1, id, duration, "cb", repeat).heap
    /\ timerLog' = [timerLog EXCEPT ![id] =
                      [NoTimerLog EXCEPT !.duration = duration, !.repeat = repeat,
                                         !.plain = TRUE]]
    /\ lastOp' = <<"addTimer", id>>
    /\ TimerOnly

CallRemoveTimer ==
  \E id \in LabTimerIds :
    /\ heap' = removeTimer(heap, c1, id).heap
    /\ timerLog' = [timerLog EXCEPT ![id] = NoTimerLog]
    /\ lastOp' = <<"removeTimer", id>>
    /\ TimerOnly

CallResetTimer ==
  \E id \in LabTimerIds :
    /\ heap' = resetTimer(heap, c1, id).heap
    /\ timerLog' = [timerLog EXCEPT ![id].plain = FALSE, ![id].pausedAt = 0,
                                    ![id].resumedAt = 0]
    /\ lastOp' = <<"resetTimer", id>>
    /\ TimerOnly

CallPauseTimer ==
  \E id \in LabTimerIds :
    /\ heap' = pauseTimer(heap, c1, id).heap
    /\ timerLog' =
         IF hasTimer(heap, c1, id) /\ timerLog[id].pausedAt = 0
           THEN [timerLog EXCEPT ![id].pausedAt = getTimeRemaining(heap, c1, id),
                                 ![id].firesAtPause = timerLog[id].fires,
                                 ![id].resumedAt = 0]
           ELSE timerLog
    /\ lastOp' = <<"pauseTimer", id>>
    /\ TimerOnly

CallResumeTimer ==
  \E id \in LabTimerIds :
    /\ heap' = resumeTimer(heap, c1, id).heap
    /\ timerLog' = [timerLog EXCEPT ![id].pausedAt = 0,
                                    ![id].resumedAt = timerLog[id].pausedAt]
    /\ lastOp' = <<"resumeTimer", id>>
    /\ TimerOnly

CallTimerUpdate ==
  \E dt \in 0..MaxDt :
    LET r == TimerUpdateFrom(heap, c1, 1, dt, <<>>)
        Calls(id) == Len(SelectSeq(r.fired, LAMBDA f : f = id))
    IN /\ heap' = r.heap
       /\ timerLog' =
            [id \in LabTimerIds |->
               [timerLog[id] EXCEPT
                  !.elapsed = IF hasTimer(heap, c1, id) /\ timerLog[id].pausedAt = 0
                                   /\ ~timerLog[id].repeat /\ timerLog[id].plain
                                THEN @ + dt ELSE @,
                  !.fires = Min(@ + Calls(id), MaxFires),
                  !.firedFrom = IF Calls(id) > 0 THEN timerLog[id].elapsed ELSE @,
                  !.resumedAt = 0]]
       /\ lastOp' = <<"update", r.fired>>
       /\ TimerOnly

NextTimer ==
  \/ CallAddTimer \/ CallRemoveTimer \/ CallResetTimer
  \/ CallPauseTimer \/ CallResumeTimer \/ CallTimerUpdate

SpecTimer == InitTimer /\ [][NextTimer]_vars

\* ------------------------------------------------------------- claims (SpecTimer)
\* C36: a timer added with a positive duration and repeat false has its
\* callback called exactly once, in the first update at which the time given
\* to it reaches the duration, and is removed then (hasTimer false); a
\* repeating timer is called at most once in an update call and starts again
\* from its whole duration.
C36_TimerFiresOnce ==
  /\ \A id \in LabTimerIds :
       (timerLog[id].plain /\ ~timerLog[id].repeat) =>
          IF timerLog[id].elapsed < timerLog[id].duration
            THEN timerLog[id].fires = 0 /\ hasTimer(heap, c1, id)
            ELSE /\ timerLog[id].fires = 1 /\ ~hasTimer(heap, c1, id)
                 /\ timerLog[id].firedFrom < timerLog[id].duration
  /\ lastOp[1] = "update" =>
       \A id \in LabTimerIds :
         /\ Len(SelectSeq(lastOp[2], LAMBDA f : f = id)) <= 1
         /\ (timerLog[id].repeat /\ id \in Range(lastOp[2])) =>
              /\ hasTimer(heap, c1, id)
              /\ MapGet(heap[c1.timers], id) = timerLog[id].duration

\* C36 witness: an update has called the callbacks of both timers, of "t",
\* not repeating, in its second update, and of "u", repeating, which starts
\* again.
C36_Witness ==
  /\ lastOp = <<"update", <<"t", "u">>>>
  /\ timerLog["t"].plain /\ ~timerLog["t"].repeat /\ timerLog["t"].firedFrom > 0
  /\ timerLog["t"].fires = 1 /\ ~hasTimer(heap, c1, "t")
  /\ timerLog["u"].repeat /\ hasTimer(heap, c1, "u")

\* C37: resumeTimer after pauseTimer gives the timer the time it had left;
\* while it is paused no update, however many, changes its time or calls
\* its callback, and getTimeRemaining stays the same; a second pauseTimer,
\* and a second resumeTimer, changes nothing.
C37_PauseResume ==
  \A id \in LabTimerIds :
    /\ timerLog[id].pausedAt # 0 =>
         /\ hasTimer(heap, c1, id)
         /\ MapGet(heap[c1.timers], id) = -timerLog[id].pausedAt
         /\ getTimeRemaining(heap, c1, id) = timerLog[id].pausedAt
         /\ timerLog[id].fires = timerLog[id].firesAtPause
    /\ (lastOp = <<"resumeTimer", id>> /\ timerLog[id].resumedAt # 0) =>
         MapGet(heap[c1.timers], id) = timerLog[id].resumedAt
    /\ lastOp = <<"pauseTimer", id>> => pauseTimer(heap, c1, id).heap = heap
    /\ lastOp = <<"resumeTimer", id>> => resumeTimer(heap, c1, id).heap = heap

\* C37 witness: "t", added with duration 2, ran for 1, was paused, stayed
\* paused over an update, and has been resumed with 1 left.
C37_Witness ==
  /\ lastOp = <<"resumeTimer", "t">>
  /\ timerLog["t"].duration = 2 /\ timerLog["t"].resumedAt = 1
  /\ timerLog["t"].elapsed = 1

\* ------------------------------------------------------------- SpecHealth
\* A HealthComponent c1 built with some maximum and with or without an
\* invincibility time.  Outside code calls damage, heal, setCurrentHealth and
\* setMaxHealth with amounts 0..MaxHealth, setInvincible and
\* updateInvincibility; lastOp holds the call, its argument and what it
\* returned.
MaxHealth == 3

\* What heal returns: this.currentHealth - oldHealth.
HealthHealReturned(c, amount) == HealthHeal(c, amount).currentHealth - c.currentHealth
\* What damage returns: 0 from the early return, else
\* oldHealth - this.currentHealth.
HealthDamageReturned(c, amount) ==
  IF c.invincible THEN 0 ELSE c.currentHealth - HealthDamage(c, amount).currentHealth

InitHealth ==
  /\ NoWorld /\ NoLoader /\ OthersIdle
  /\ \E maxHealth \in 0..MaxHealth, invincibilityTime \in 0..1 :
       c1 = NewHealth(maxHealth, invincibilityTime)
  /\ c2 = NoObj /\ heap = <<>> /\ lastOp = <<"none">>

CallDamage ==
  \E amount \in 0..MaxHealth :
    /\ c1' = HealthDamage(c1, amount)
    /\ lastOp' = <<"damage", amount, HealthDamageReturned(c1, amount)>>
    /\ UNCHANGED <<c2, heap>> /\ ComponentsOnly
CallHeal ==
  \E amount \in 0..MaxHealth :
    /\ c1' = HealthHeal(c1, amount)
    /\ lastOp' = <<"heal", amount, HealthHealReturned(c1, amount)>>
    /\ UNCHANGED <<c2, heap>> /\ ComponentsOnly
CallSetCurrentHealth ==
  \E health \in 0..MaxHealth :
    /\ c1' = HealthSetCurrentHealth(c1, health)
    /\ lastOp' = <<"setCurrentHealth", health, Null>>
    /\ UNCHANGED <<c2, heap>> /\ ComponentsOnly
CallSetMaxHealth ==
  \E maxHealth \in 0..MaxHealth :
    /\ c1' = HealthSetMaxHealth(c1, maxHealth)
    /\ lastOp' = <<"setMaxHealth", maxHealth, Null>>
    /\ UNCHANGED <<c2, heap>> /\ ComponentsOnly
CallSetInvincible ==
  \E invincible \in BOOLEAN :
    /\ c1' = HealthSetInvincible(c1, invincible)
    /\ lastOp' = <<"setInvincible", invincible, Null>>
    /\ UNCHANGED <<c2, heap>> /\ ComponentsOnly
CallUpdateInvincibility ==
  /\ c1' = HealthUpdateInvincibility(c1, 1)
  /\ lastOp' = <<"updateInvincibility", 1, Null>>
  /\ UNCHANGED <<c2, heap>> /\ ComponentsOnly

NextHealth ==
  \/ CallDamage \/ CallHeal \/ CallSetCurrentHealth \/ CallSetMaxHealth
  \/ CallSetInvincible \/ CallUpdateInvincibility

SpecHealth == InitHealth /\ [][NextHealth]_vars

\* ------------------------------------------------------------- claims (SpecHealth)
\* C38: with amounts that are not negative, after every call
\* 0 <= currentHealth <= maxHealth; damage returns the health it took and
\* heal the health it gave; damage on an invincible component returns 0 and
\* changes nothing of the component.
C38_HealthWithinBounds ==
  [][/\ 0 <= c1'.currentHealth /\ c1'.currentHealth <= c1'.maxHealth
     /\ CallDamage =>
          /\ lastOp'[3] = c1.currentHealth - c1'.currentHealth
          /\ c1.invincible => (lastOp'[3] = 0 /\ c1' = c1)
     /\ CallHeal => lastOp'[3] = c1'.currentHealth - c1.currentHealth]_vars

\* C38 witness: damage(1) on an invincible component with health left has
\* returned 0.
C38_Witness ==
  /\ lastOp = <<"damage", 1, 0>> /\ c1.invincible /\ c1.currentHealth > 0

\* ------------------------------------------------------------- SpecReentrant
\* A world without systems whose lifecycle listeners call back into it:
\* called from a flush loop of update, a listener calls nothing, addEntity or
\* removeEntity, the listeners together up to MaxListenerCalls times in an
\* update.  trace notes the call after the notification that made it,
\* as <<"addEntity", e, listener>> or <<"removeEntity", id, listener>>.
ListenerCalls ==
  {<<"none", Null>>} \cup ({"addEntity", "removeEntity"} \X EntityObjs)

\* The body of the listener called: what it calls of the World.
ListenerBody(call) ==
  CASE call[1] = "addEntity" -> AddEntity(call[2])
    [] call[1] = "removeEntity" -> RemoveEntity(call[2])
    [] OTHER -> UNCHANGED progVars

\* The calls the listeners have made in the update in progress.
MaxListenerCalls == 1
CallsNoted == SelectSeq(trace, LAMBDA t : t[1] \in {"addEntity", "removeEntity"})

Noted(call, l) == IF call[1] = "none" THEN <<>> ELSE <<<<call[1], call[2], l>>>>

\* for (const listener of this.entityListeners): listener(entity, true)
NotifyAddedCalling ==
  /\ pc = "flushAdd" /\ lidx >= 1 /\ lidx <= Len(entityListeners)
  /\ \E call \in ListenerCalls :
       /\ call[1] # "none" => Len(CallsNoted) < MaxListenerCalls
       /\ ListenerBody(call)
       /\ trace' = Append(trace, <<"added", entitiesToAdd[idx], entityListeners[lidx]>>)
                     \o Noted(call, entityListeners[lidx])
  /\ IF lidx + 1 > Len(entityListeners')
       THEN idx' = idx + 1 /\ lidx' = 0
       ELSE idx' = idx /\ lidx' = lidx + 1
  /\ UNCHANGED <<pc, runLog, adds0, rems0, reg0, histVars, collGhost, hookCalls>>

\* for (const listener of this.entityListeners): listener(entity, false)
NotifyRemovedCalling ==
  /\ pc = "flushRemove" /\ lidx >= 1 /\ lidx <= Len(entityListeners)
  /\ \E call \in ListenerCalls :
       /\ call[1] # "none" => Len(CallsNoted) < MaxListenerCalls
       /\ ListenerBody(call)
       /\ trace' = Append(trace, <<"removed", entitiesToRemove[idx], entityListeners[lidx]>>)
                     \o Noted(call, entityListeners[lidx])
  /\ IF lidx + 1 > Len(entityListeners')
       THEN idx' = idx + 1 /\ lidx' = 0
       ELSE idx' = idx /\ lidx' = lidx + 1
  /\ UNCHANGED <<pc, runLog, adds0, rems0, reg0, histVars, collGhost, hookCalls>>

InitReentrant ==
  /\ NoWorld /\ LabIdle

NextReentrant ==
  \/ CallAddEntity \/ CallRemoveEntity
  \/ CallAddEntityListener \/ CallRemoveEntityListener
  \/ UpdateStart
  \/ FlushAddEntity \/ NotifyAddedCalling \/ FlushAddDone
  \/ FlushRemoveEntity \/ NotifyRemovedCalling \/ FlushRemoveDone
  \/ UpdateReturn

SpecReentrant == InitReentrant /\ [][NextReentrant]_vars

\* ------------------------------------------------------------- claims (SpecReentrant)
\* C31: an addEntity or removeEntity call that a lifecycle listener makes
\* while update is flushing does not take effect in that flush: the entity
\* it asks to add, not pending when the update began, is not put into the
\* registry by this update, and the id it asks to remove, not pending when
\* the update began, is not deleted from the registry by this update.
C31_ListenerCallsDeferred ==
  \A i \in 1..Len(trace), j \in 1..Len(trace) :
    i < j =>
      /\ (trace[i][1] = "addEntity" /\ trace[i][2] \notin Range(adds0)) =>
           trace[j] # <<"set", trace[i][2], 0>>
      /\ (trace[i][1] = "removeEntity" /\ trace[i][2] \notin Range(rems0)) =>
           trace[j] # <<"delete", trace[i][2], 0>>

\* ------------------------------------------------------------- SpecCalling
\* The system list and the update loop, with systems whose update calls the
\* World: nothing, removeSystem of some kind, or addSystem of an instance that
\* has not been registered in this tick.  Outside code calls addSystem,
\* removeSystem, setActive and update between ticks.  During a tick addOrder
\* stays what was registered when the tick began; after a tick in which a
\* system changed the list it is brought up to the list.
CallingUpdate(s) ==
  \/ PassiveUpdate
  \/ \E kind \in Kinds : RemoveSystem(kind) /\ UNCHANGED collGhost
  \/ \E s2 \in SchedSystemObjs \ (Range(systems) \cup Range(addOrder)) :
       AddSystem(s2) /\ UNCHANGED collGhost

Settled == Range(addOrder) = Range(systems)

Settle ==
  /\ ~Settled /\ Outside
  /\ addOrder' = SelectSeq(addOrder, LAMBDA x : x \in Range(systems))
                   \o SelectSeq(systems, LAMBDA x : x \notin Range(addOrder))
  /\ skipped' = skipped \cap Range(systems)
  /\ UNCHANGED <<progVars, hookCalls>>

SettledAddSystem == Settled /\ CallAddSystem
SettledRemoveSystem == Settled /\ CallRemoveSystem
SettledSetActive == Settled /\ CallSetActive
TickStart == Settled /\ UpdateStart

NextCalling ==
  \/ SettledAddSystem \/ SettledRemoveSystem \/ SettledSetActive \/ Settle
  \/ TickStart \/ FlushAddDone \/ FlushRemoveDone
  \/ RunSystem(CallingUpdate) \/ UpdateReturn

SpecCalling == Init /\ [][NextCalling]_vars

\* ------------------------------------------------------------- claims (SpecCalling)
\* The systems registered from the beginning of the tick to its end and
\* active, in the order of the list.
WholeTick ==
  SelectSeq(systems, LAMBDA s : s \in Range(addOrder) /\ isActive(s))

\* C32: when the update of a system calls removeSystem or addSystem during
\* update, every system that is registered and active for the whole tick is
\* updated exactly once in that tick, and these in priority order.
C32_WholeTickSystemsRunOnce ==
  pc = "done" =>
    SelectSeq(runLog, LAMBDA s : s \in Range(WholeTick)) = WholeTick

\* ------------------------------------------------------------- HealthSystem
NumDeathListeners == 2
DeathListenerObjs == 1..NumDeathListeners

labCore == <<c1, c2, heap, lastOp, configs, configChangeListeners, load, isRunning>>

\* HealthSystem.filter and HealthComponent.isAlive.
healthFilter(e) == currentHealth[e] # NoHealth
isAlive(e) == currentHealth[e] > 0

\* HealthSystem.removeEntityDeathListener, on the array.
removeEntityDeathListener(listeners, l) ==
  LET index == FindIndex(listeners, LAMBDA x : x = l)
  IN IF index # 0 THEN RemoveAt(listeners, index) ELSE listeners

\* handleEntityDeath, the loop from the i-th listener on: for (const listener
\* of this.entityDeathListeners) listener(entity).  Listener l, when called,
\* calls removeEntityDeathListener(react[l]), or nothing when react[l] is
\* Null.
RECURSIVE NotifyDeath(_, _, _, _, _)
NotifyDeath(listeners, i, e, react, log) ==
  IF i > Len(listeners) THEN [listeners |-> listeners, log |-> log]
  ELSE NotifyDeath(IF react[listeners[i]] = Null THEN listeners
                   ELSE removeEntityDeathListener(listeners, react[listeners[i]]),
                   i + 1, e, react, Append(log, <<listeners[i], e>>))

\* updateEntityHealth for the entities list[i..]: an entity that is not alive
\* is handed to handleEntityDeath, which calls the listeners and then
\* this.world.removeEntity.  st holds the listeners, the log and the removal
\* buffer so far.  (updateInvincibility and the blink effect write neither.)
RECURSIVE UpdateEntitiesHealth(_, _, _, _)
UpdateEntitiesHealth(list, i, react, st) ==
  IF i > Len(list) THEN st
  ELSE IF isAlive(list[i]) THEN UpdateEntitiesHealth(list, i + 1, react, st)
  ELSE LET n == NotifyDeath(st.listeners, 1, list[i], react, st.log)
       IN UpdateEntitiesHealth(list, i + 1, react,
                               [listeners |-> n.listeners, log |-> n.log,
                                toRemove |-> KeyAdd(st.toRemove, list[i])])

\* HealthSystem.update.
HealthSystemUpdate(react) ==
  LET healthEntities ==
        SelectSeq(getEntities, LAMBDA e : healthFilter(e) /\ entActive[e])
      r == UpdateEntitiesHealth(healthEntities, 1, react,
                                [listeners |-> entityDeathListeners, log |-> deathLog,
                                 toRemove |-> entitiesToRemove])
  IN /\ entitiesToRemove' = IF sysWorld["health"] THEN r.toRemove ELSE entitiesToRemove
     /\ entityDeathListeners' =
          IF sysWorld["health"] THEN r.listeners ELSE entityDeathListeners
     /\ deathLog' = IF sysWorld["health"] THEN r.log ELSE deathLog
     /\ UNCHANGED <<entities, entitiesToAdd, systems, entityListeners, sysVars, entVars,
                    collVars, labCore, poolVars, timerLog, currentHealth, spawnVars,
                    weaponVars, collGhost, hookCalls>>

\* ------------------------------------------------------------- SpecDeath
\* A world with the HealthSystem registered and the entities in its registry,
\* each with or without a Health component.  Between ticks outside code
\* damages an entity, and adds and removes death listeners; a death listener,
\* when called, removes a death listener or does nothing.  No entity is added.
DeathUpdate(s) ==
  \E react \in [DeathListenerObjs -> {Null} \cup DeathListenerObjs] :
    HealthSystemUpdate(react)

InitDeath ==
  /\ entities = [i \in 1..NumEntities |-> i]
  /\ entitiesToAdd = <<>> /\ entitiesToRemove = <<>>
  /\ systems = <<"health">> /\ entityListeners = <<>>
  /\ sysActive = [s \in SystemObjs |-> TRUE]
  /\ sysWorld = [s \in SystemObjs |-> s = "health"]
  /\ components = [e \in EntityObjs |-> [t \in TypeIds |-> NoComp]]
  /\ owner = [c \in CompObjs |-> Null]
  /\ tags = [e \in EntityObjs |-> {}]
  /\ entActive \in [EntityObjs -> BOOLEAN]
  /\ tpos = [c \in TransformObjs |-> <<0, 0>>]
  /\ collider = [c \in ColliderObjs |-> DefaultCollider]
  /\ velocity = [e \in EntityObjs |-> NoVelocity]
  /\ trs = [c \in TransformObjs |-> DefaultRS]
  /\ collisionPairs = [s \in CollisionObjs |-> <<>>]
  /\ collisionListeners = [s \in CollisionObjs |-> <<>>]
  /\ pc = "idle" /\ idx = 0 /\ lidx = 0
  /\ trace = <<>> /\ runLog = <<>> /\ adds0 = <<>> /\ rems0 = <<>> /\ reg0 = <<>>
  /\ addOrder = <<"health">> /\ skipped = {}
  /\ events = <<>> /\ overlapNow = {} /\ vanished = {} /\ movedInto = {} /\ hookCalls = <<>>
  /\ dispatch = [registered |-> <<>>, delivered |-> <<>>, removed |-> {}]
  /\ NoComponents /\ NoLoader /\ NoPool /\ timerLog = IdleTimerLog
  /\ currentHealth \in [EntityObjs -> {NoHealth, 1}]
  /\ entityDeathListeners = <<>> /\ deathLog = <<>>
  /\ timeSinceLastSpawn = 0 /\ spawnInterval = 2000
  /\ difficultyMultiplier = 1 /\ maxEnemies = 10
  /\ autoFire = FALSE /\ sinceFire = 0

DeathFrame ==
  UNCHANGED <<worldVars, sysVars, entVars, collVars, labCore, poolVars, timerLog,
              spawnVars, weaponVars, histVars, hookCalls>>

\* HealthComponent.damage(1) on the Health component of an entity.
CallHurt ==
  \E e \in EntityObjs :
    /\ healthFilter(e) /\ Outside
    /\ currentHealth' = [currentHealth EXCEPT ![e] = Max(0, @ - 1)]
    /\ UNCHANGED <<entityDeathListeners, deathLog>> /\ DeathFrame

CallAddEntityDeathListener ==
  \E l \in DeathListenerObjs :
    /\ l \notin Range(entityDeathListeners) /\ Outside
    /\ entityDeathListeners' = Append(entityDeathListeners, l)
    /\ UNCHANGED <<currentHealth, deathLog>> /\ DeathFrame

CallRemoveEntityDeathListener ==
  \E l \in DeathListenerObjs :
    /\ Outside
    /\ entityDeathListeners' = removeEntityDeathListener(entityDeathListeners, l)
    /\ UNCHANGED <<currentHealth, deathLog>> /\ DeathFrame

NextDeath ==
  \/ CallHurt \/ CallAddEntityDeathListener \/ CallRemoveEntityDeathListener
  \/ UpdateStart \/ FlushAddDone \/ FlushRemoveEntity \/ FlushRemoveDone
  \/ RunSystem(DeathUpdate) \/ UpdateReturn

SpecDeath == InitDeath /\ [][NextDeath]_vars

\* ------------------------------------------------------------- claims (SpecDeath)
\* The calls of death listeners the step makes.
NewDeathCalls == SubSeq(deathLog', Len(deathLog) + 1, Len(deathLog'))

\* C33: for an active entity of the registry whose health has reached 0, the
\* update of the HealthSystem calls every death listener exactly once for
\* it (every listener registered before the update and after it), and the
\* entity is out of the registry once the next update has flushed.
C33_DeathNotifiedOnce ==
  [][/\ runLog' = Append(runLog, "health") =>
          \A e \in Range(getEntities) :
            (healthFilter(e) /\ entActive[e] /\ ~isAlive(e)) =>
               /\ e \in Range(entitiesToRemove')
               /\ \A l \in Range(entityDeathListeners) \cap Range(entityDeathListeners') :
                    Len(SelectSeq(NewDeathCalls, LAMBDA c : c = <<l, e>>)) = 1
     /\ (pc = "flushRemove" /\ pc' = "systems") =>
          \A e \in Range(rems0) : e \notin Range(entities')]_vars

\* ------------------------------------------------------------- EnemySpawnSystem
\* this.world.getEntitiesByTag('enemy').length
EnemyCount == Len(getEntitiesByTag("enemy"))

\* The interval has elapsed for the timer value t:
\* t >= this.spawnInterval / this.difficultyMultiplier, the multiplier being
\* positive.
IntervalElapsed(t) == t * difficultyMultiplier >= spawnInterval

\* An update that spawns without counting the enemies.
SpawnSystemUpdateUncounted(enemy) ==
  LET t == timeSinceLastSpawn + deltaTime * 1000
  IN /\ UNCHANGED <<collGhost, hookCalls>>
     /\ IF ~sysWorld["spawn"] THEN UNCHANGED progVars
        ELSE IF IntervalElapsed(t)
          THEN /\ timeSinceLastSpawn' = 0
               /\ entitiesToAdd' = Append(entitiesToAdd, enemy)
               /\ UNCHANGED <<entities, entitiesToRemove, systems, entityListeners,
                              sysVars, entVars, collVars, labCore, poolVars, timerLog,
                              healthVars, spawnInterval, difficultyMultiplier,
                              maxEnemies, weaponVars>>
          ELSE /\ timeSinceLastSpawn' = t
               /\ UNCHANGED <<worldVars, sysVars, entVars, collVars, labCore, poolVars,
                              timerLog, healthVars, spawnInterval,
                              difficultyMultiplier, maxEnemies, weaponVars>>

\* EnemySpawnSystem.update; `enemy` is the entity the factory makes if
\* spawnEnemy is called.
SpawnSystemUpdate(enemy) ==
  LET t == timeSinceLastSpawn + deltaTime * 1000
  IN /\ UNCHANGED <<collGhost, hookCalls>>
     /\ IF ~sysWorld["spawn"] THEN UNCHANGED progVars
        ELSE IF IntervalElapsed(t)
          THEN /\ timeSinceLastSpawn' = 0
               /\ entitiesToAdd' = IF EnemyCount < maxEnemies
                                     THEN Append(entitiesToAdd, enemy)
                                     ELSE entitiesToAdd
               /\ UNCHANGED <<entities, entitiesToRemove, systems, entityListeners,
                              sysVars, entVars, collVars, labCore, poolVars, timerLog,
                              healthVars, spawnInterval, difficultyMultiplier,
                              maxEnemies, weaponVars>>
          ELSE /\ timeSinceLastSpawn' = t
               /\ UNCHANGED <<worldVars, sysVars, entVars, collVars, labCore, poolVars,
                              timerLog, healthVars, spawnInterval,
                              difficultyMultiplier, maxEnemies, weaponVars>>

\* ------------------------------------------------------------- SpecSpawn
\* A world with the EnemySpawnSystem registered and no entity.  Every entity
\* object is an enemy as the factory makes it, and only the EnemySpawnSystem
\* hands one to the World: a new one, or the object of an enemy that has left
\* the registry.  Between ticks outside code removes entities, raises
\* maxEnemies and sets the difficulty multiplier.
MaxMultiplier == 2

Fresh(e) == e \notin Range(entities) /\ e \notin Range(entitiesToAdd)

SpawnUpdate(s) ==
  IF \E e \in EntityObjs : Fresh(e)
    THEN \E e \in EntityObjs : Fresh(e) /\ SpawnSystemUpdate(e)
    ELSE SpawnSystemUpdate(Null)

InitSpawn ==
  /\ entities = <<>> /\ entitiesToAdd = <<>> /\ entitiesToRemove = <<>>
  /\ systems = <<"spawn">> /\ entityListeners = <<>>
  /\ sysActive = [s \in SystemObjs |-> TRUE]
  /\ sysWorld = [s \in SystemObjs |-> s = "spawn"]
  /\ components = [e \in EntityObjs |-> [t \in TypeIds |-> NoComp]]
  /\ owner = [c \in CompObjs |-> Null]
  /\ tags = [e \in EntityObjs |-> {"enemy"}]
  /\ entActive = [e \in EntityObjs |-> TRUE]
  /\ tpos = [c \in TransformObjs |-> <<0, 0>>]
  /\ collider = [c \in ColliderObjs |-> DefaultCollider]
  /\ velocity = [e \in EntityObjs |-> NoVelocity]
  /\ trs = [c \in TransformObjs |-> DefaultRS]
  /\ collisionPairs = [s \in CollisionObjs |-> <<>>]
  /\ collisionListeners = [s \in CollisionObjs |-> <<>>]
  /\ pc = "idle" /\ idx = 0 /\ lidx = 0
  /\ trace = <<>> /\ runLog = <<>> /\ adds0 = <<>> /\ rems0 = <<>> /\ reg0 = <<>>
  /\ addOrder = <<"spawn">> /\ skipped = {}
  /\ events = <<>> /\ overlapNow = {} /\ vanished = {} /\ movedInto = {} /\ hookCalls = <<>>
  /\ dispatch = [registered |-> <<>>, delivered |-> <<>>, removed |-> {}]
  /\ NoComponents /\ NoLoader /\ NoPool /\ timerLog = IdleTimerLog
  /\ currentHealth = [e \in EntityObjs |-> NoHealth]
  /\ entityDeathListeners = <<>> /\ deathLog = <<>>
  /\ timeSinceLastSpawn = 0 /\ difficultyMultiplier = 1
  /\ spawnInterval \in {1000, 2000, 3000}
  /\ maxEnemies \in 0..NumEntities
  /\ autoFire = FALSE /\ sinceFire = 0

SpawnFrame ==
  UNCHANGED <<worldVars, sysVars, entVars, collVars, labCore, poolVars, timerLog,
              healthVars, weaponVars, histVars, hookCalls>>

\* EnemySpawnSystem.setMaxEnemies, with a value that is not lower.
CallSetMaxEnemies ==
  \E max \in maxEnemies..NumEntities :
    /\ Outside /\ maxEnemies' = max
    /\ UNCHANGED <<timeSinceLastSpawn, spawnInterval, difficultyMultiplier>>
    /\ SpawnFrame

\* EnemySpawnSystem.setDifficultyMultiplier.
CallSetDifficultyMultiplier ==
  \E multiplier \in 1..MaxMultiplier :
    /\ Outside /\ difficultyMultiplier' = multiplier
    /\ UNCHANGED <<timeSinceLastSpawn, spawnInterval, maxEnemies>>
    /\ SpawnFrame

NextSpawn ==
  \/ CallRemoveEntity \/ CallSetMaxEnemies \/ CallSetDifficultyMultiplier
  \/ UpdateStart \/ FlushAddEntity \/ FlushAddDone
  \/ FlushRemoveEntity \/ FlushRemoveDone
  \/ RunSystem(SpawnUpdate) \/ UpdateReturn

SpecSpawn == InitSpawn /\ [][NextSpawn]_vars

\* ------------------------------------------------------------- claims (SpecSpawn)
\* C34: with the EnemySpawnSystem the only source of enemies and maxEnemies
\* never lowered, the registry never holds more than maxEnemies enemies, an
\* update of the system queues at most one enemy, and it sets the spawn
\* timer to 0 whenever the interval has elapsed, an enemy spawned or not.
C34_EnemiesCapped ==
  [][/\ EnemyCount' <= maxEnemies'
     /\ runLog' = Append(runLog, "spawn") =>
          /\ Len(entitiesToAdd') <= Len(entitiesToAdd) + 1
          /\ Len(entitiesToAdd') <= 1
          /\ IntervalElapsed(timeSinceLastSpawn + deltaTime * 1000) =>
               timeSinceLastSpawn' = 0]_vars

\* C34 witness: an update has found the interval elapsed and the registry
\* full: it has set the timer to 0 and queued no enemy.
C34_Witness ==
  /\ pc = "done" /\ runLog = <<"spawn">>
  /\ maxEnemies >= 1 /\ EnemyCount = maxEnemies
  /\ timeSinceLastSpawn = 0 /\ entitiesToAdd = <<>>

\* ------------------------------------------------------------- WeaponSystem
\* The weapon is the component c1, the Input component of the same entity,
\* if it has one, c2.  Projectiles are entity objects of their own, without
\* a Weapon component.
MaxProjectiles == 4
MaxSince == 3000
ProjectileObjs == (NumEntities + 1)..(NumEntities + MaxProjectiles)
NoFire == 0 - 1

\* InputComponent.isMouseButtonDown.
isMouseButtonDown(h, c, button) ==
  MapHas(h[c.mouseButtons], button) /\ MapGet(h[c.mouseButtons], button)

\* WeaponSystem.filter.
weaponFilter(e) ==
  /\ c1.kind = "Weapon" /\ c1.owner = e
  /\ e \in EntityObjs /\ hasComponent(e, "Transform")

\* A shouldFire that does not ask the weapon whether it can fire.
shouldFireAnyTime(h, weapon, input) ==
  IF input.kind = "Input"
    THEN isKeyDown(h, input, "Space") \/ isMouseButtonDown(h, input, "button0")
    ELSE autoFire

\* WeaponSystem.shouldFire.
shouldFire(h, weapon, input) ==
  IF ~WeaponCanFire(weapon) THEN FALSE
  ELSE IF input.kind = "Input"
    THEN isKeyDown(h, input, "Space") \/ isMouseButtonDown(h, input, "button0")
    ELSE autoFire

\* The entities the projectile factory makes next: objects that are neither
\* in the registry nor pending.
NewProjectiles ==
  SelectSeq([i \in 1..MaxProjectiles |-> NumEntities + i],
            LAMBDA p : p \notin Range(entities) /\ p \notin Range(entitiesToAdd))

\* fireWeapon: resetCooldown, then projectileCount times projectilePool.get(),
\* the factory and this.world.addEntity.  The pool is empty (nothing is
\* recycled), so get makes an entity of its own and leaves the pool empty.
fireWeapon(weapon) ==
  /\ c1' = WeaponResetCooldown(weapon)
  /\ entitiesToAdd' = entitiesToAdd \o SubSeq(NewProjectiles, 1, weapon.projectileCount)

\* WeaponSystem.update: for each weapon entity updateWeaponCooldown, then
\* fireWeapon if shouldFire.  There is one Weapon component, so at most one
\* weapon entity.
WeaponSystemUpdate ==
  LET weaponEntities ==
        SelectSeq(getEntities, LAMBDA e : weaponFilter(e) /\ entActive[e])
      reduced == WeaponReduceCooldown(c1, deltaTime * 1000)
  IN /\ UNCHANGED <<collGhost, hookCalls>>
     /\ IF ~sysWorld["weapon"] \/ weaponEntities = <<>> THEN UNCHANGED progVars
        ELSE /\ IF shouldFire(heap, reduced, c2)
                  THEN /\ fireWeapon(reduced)
                       /\ sinceFire' = 0
                       /\ lastOp' = <<"fire">>
                  ELSE /\ c1' = reduced
                       /\ sinceFire' = IF sinceFire = NoFire THEN NoFire
                                       ELSE Min(sinceFire + deltaTime * 1000, MaxSince)
                       /\ lastOp' = <<"hold">>
                       /\ UNCHANGED entitiesToAdd
             /\ UNCHANGED <<entities, entitiesToRemove, systems, entityListeners,
                            sysVars, entVars, collVars, c2, heap, configs,
                            configChangeListeners, load, isRunning, poolVars, timerLog,
                            healthVars, spawnVars, autoFire>>

\* ------------------------------------------------------------- SpecWeapon
\* A world with the WeaponSystem registered and entity 1 in its registry,
\* with a Transform, a Weapon of some cooldown and projectile count, and with
\* or without an Input component.  Between ticks outside code presses and
\* releases the Space key and removes projectiles.  A tick begins when the
\* factory has projectile objects left for a firing.
WeaponUpdate(s) == WeaponSystemUpdate

InitWeapon ==
  /\ entities = <<1>> /\ entitiesToAdd = <<>> /\ entitiesToRemove = <<>>
  /\ systems = <<"weapon">> /\ entityListeners = <<>>
  /\ sysActive = [s \in SystemObjs \cup {"weapon"} |-> TRUE]
  /\ sysWorld = [s \in SystemObjs \cup {"weapon"} |-> s = "weapon"]
  /\ components = [e \in EntityObjs |->
                     [t \in TypeIds |-> IF e = 1 /\ t = "Transform"
                                          THEN <<"Transform", 1>> ELSE NoComp]]
  /\ owner = [c \in CompObjs |-> IF c = <<"Transform", 1>> THEN 1 ELSE Null]
  /\ tags = [e \in EntityObjs |-> {}]
  /\ entActive = [e \in EntityObjs |-> TRUE]
  /\ tpos = [c \in TransformObjs |-> <<0, 0>>]
  /\ collider = [c \in ColliderObjs |-> DefaultCollider]
  /\ velocity = [e \in EntityObjs |-> NoVelocity]
  /\ trs = [c \in TransformObjs |-> DefaultRS]
  /\ collisionPairs = [s \in CollisionObjs |-> <<>>]
  /\ collisionListeners = [s \in CollisionObjs |-> <<>>]
  /\ pc = "idle" /\ idx = 0 /\ lidx = 0
  /\ trace = <<>> /\ runLog = <<>> /\ adds0 = <<>> /\ rems0 = <<>> /\ reg0 = <<>>
  /\ addOrder = <<"weapon">> /\ skipped = {}
  /\ events = <<>> /\ overlapNow = {} /\ vanished = {} /\ movedInto = {} /\ hookCalls = <<>>
  /\ dispatch = [registered |-> <<>>, delivered |-> <<>>, removed |-> {}]
  /\ \E cooldown \in {0, 1000, 1500, 2500}, projectileCount \in 0..2, withInput \in BOOLEAN :
       LET w == NewWeapon(Alloc(<<>>, <<>>).heap, "default", 1, cooldown, 1, 1, 0,
                          projectileCount, "", NoSound, 1)
           i == NewInput(w.heap)
       IN /\ c1 = SetOwner(w.obj, 1)
          /\ c2 = IF withInput THEN SetOwner(i.obj, 1) ELSE NoObj
          /\ heap = i.heap
  /\ lastOp = <<"none">>
  /\ NoLoader /\ NoPool /\ timerLog = IdleTimerLog
  /\ currentHealth = [e \in EntityObjs |-> NoHealth]
  /\ entityDeathListeners = <<>> /\ deathLog = <<>>
  /\ timeSinceLastSpawn = 0 /\ spawnInterval = 2000
  /\ difficultyMultiplier = 1 /\ maxEnemies = 10
  /\ autoFire \in BOOLEAN /\ sinceFire = NoFire

\* InputComponent.handleKey for the Space key.
CallHandleKey ==
  \E down \in BOOLEAN :
    /\ c2.kind = "Input" /\ Outside
    /\ heap' = handleKey(heap, c2, "Space", down).heap
    /\ UNCHANGED <<worldVars, sysVars, entVars, collVars, c1, c2, lastOp, configs,
                   configChangeListeners, load, isRunning, otherVars, histVars,
                   hookCalls>>

CallRemoveProjectile ==
  \E p \in ProjectileObjs : Outside /\ RemoveEntity(p) /\ UNCHANGED histVars

WeaponTickStart == Len(NewProjectiles) >= c1.projectileCount /\ UpdateStart

NextWeapon ==
  \/ CallHandleKey \/ CallRemoveProjectile
  \/ WeaponTickStart \/ FlushAddEntity \/ FlushAddDone
  \/ FlushRemoveEntity \/ FlushRemoveDone
  \/ RunSystem(WeaponUpdate) \/ UpdateReturn

SpecWeapon == InitWeapon /\ [][NextWeapon]_vars

\* ------------------------------------------------------------- claims (SpecWeapon)
\* C35: the entity fires only in a tick in which, the tick's time taken off,
\* its current cooldown is 0 and its fire condition holds (the Space key or
\* the mouse button for an entity with Input, autoFire for one without);
\* firing sets the current cooldown to the weapon's cooldown and queues
\* exactly projectileCount entities; two firings are at least cooldown ms of
\* tick time apart.
C35_FiresWhenCooledDown ==
  [][(runLog' = Append(runLog, "weapon") /\ lastOp' = <<"fire">>) =>
       /\ Max(0, c1.currentCooldown - deltaTime * 1000) = 0
       /\ IF c2.kind = "Input"
            THEN isKeyDown(heap, c2, "Space") \/ isMouseButtonDown(heap, c2, "button0")
            ELSE autoFire
       /\ c1'.currentCooldown = c1.cooldown
       /\ Len(entitiesToAdd') = Len(entitiesToAdd) + c1.projectileCount
       /\ sinceFire # NoFire => sinceFire + deltaTime * 1000 >= c1.cooldown]_vars

\* C35 witness: a weapon of cooldown 1500 with two projectiles has fired a
\* second time, two ticks after the first.
C35_Witness ==
  /\ pc = "done" /\ lastOp = <<"fire">> /\ sinceFire = 0
  /\ c1.cooldown = 1500 /\ c1.projectileCount = 2 /\ Len(entitiesToAdd) = 2
  /\ Len(entities) = 3

====
